---- MODULE Spec2Model ----
(***************************************************************************)
(* Model of the qcparse / qccodec decoding pipeline: the ParserRegistry    *)
(* (registry.py), the write-once DataCollector (models.py) and the decode  *)
(* orchestrator (codec.py) with the CREST file classifier (parsers/crest). *)
(***************************************************************************)
EXTENDS Naturals, Integers, Sequences, FiniteSets, TLC

VARIABLES
    registry,   \* ParserRegistry.registry: program -> list of ParserSpec (a defaultdict)
    regRet,     \* the last registry call: its arguments and what it returned or raised
    dc,         \* a DataCollector instance (SpecCollector)
    dcWritten,  \* history: the targets add_data has written to dc so far
    dcRet,      \* the last add_data call on dc: its arguments and outcome
    dec,        \* a decode call: its arguments, its position, its locals, its result
    calls,      \* the decode calls in progress at the same time (SpecCalls)
    env,        \* what the parser functions and the results models do on each input
    gen,        \* an iter_files generator: its arguments, its position, what it yielded
    enc,        \* the last encoder-side call: its arguments and what it returned or raised
    cli         \* a run of the command line program: its arguments, position, output, exit code

vars == <<registry, regRet, dc, dcWritten, dcRet, dec, calls, env, gen, enc, cli>>

-----------------------------------------------------------------------------
(* Bounds of the model *)

\* most ParserSpecs registered in one run
MaxSpecs == 2

-----------------------------------------------------------------------------
(* Python values *)

\* Python's None, where a string-valued argument is optional
None == "None"

\* truthiness of an optional str-valued enum member: None and "" are falsy
Truthy(x) == x # None /\ x # ""

ToSet(s) == {s[i] : i \in 1..Len(s)}

\* A target is None, a str, or a tuple of str. Python compares them by type
\* and content, so "energy" and ("energy",) are different targets.
NoTarget == [form |-> "none", keys |-> <<>>]
StrTarget(k) == [form |-> "str", keys |-> <<k>>]
TupleTarget(ks) == [form |-> "tuple", keys |-> ks]

-----------------------------------------------------------------------------
(* registry.py: ParserSpec *)

Programs == {"crest", "terachem"}

\* a program name nothing is ever registered for
UnknownProgram == "not_a_program"

CalcTypeLists == {<<"energy">>, <<"gradient">>, <<"energy", "gradient">>}

\* the (filetype, target, parser) shapes ParserSpecs are built from
EnergyShape ==
    [filetype |-> "stdout", target |-> StrTarget("energy"), parser |-> "parse_energy"]

SpecShapes ==
    { EnergyShape,
      [filetype |-> "stdout", target |-> TupleTarget(<<"energy">>), parser |-> "parse_energy2"],
      [filetype |-> "stdout", target |-> NoTarget, parser |-> "parse_nothing"],
      [filetype |-> "directory", target |-> NoTarget, parser |-> "parse_conformers"] }

\* list(CalcType): the calculation types, in declaration order
CalcType ==
    <<"energy", "gradient", "hessian", "optimization", "transition_state",
      "conformer_search">>

\* DefaultCalctypes leaving an omitted argument as an empty list
DefaultCalctypesEmpty(given, calctypes) ==
    IF given THEN calctypes ELSE <<>>

\* the decorator's calctypes argument: the list given, or every CalcType when
\* the argument is None (given = FALSE)
DefaultCalctypes(given, calctypes) ==
    IF given THEN calctypes ELSE CalcType

\* crest.parse_version, which the module registers without calctypes
VersionShape ==
    [filetype |-> "stdout", target |-> TupleTarget(<<"extras", "program_version">>),
     parser |-> "parse_version"]

\* file parsers declared with an empty target: "" and ()
EmptyTargetShapes ==
    { [filetype |-> "stdout", target |-> StrTarget(""), parser |-> "parse_empty_str"],
      [filetype |-> "stdout", target |-> TupleTarget(<<>>), parser |-> "parse_empty_tuple"] }

MkSpec(program, sh, cts, required) ==
    [parser |-> sh.parser, filetype |-> sh.filetype, required |-> required,
     calctypes |-> cts, program |-> program, target |-> sh.target]

\* the ParserSpecs a run may try to construct and register
SpecCandidates ==
    { MkSpec("crest", sh, cts, TRUE) : sh \in SpecShapes, cts \in CalcTypeLists }
    \cup { MkSpec("crest", EnergyShape, <<>>, TRUE),
           MkSpec("terachem", EnergyShape, <<"energy">>, TRUE) }
    \cup { MkSpec("crest", sh, <<"energy">>, TRUE) : sh \in EmptyTargetShapes }

\* Python's truthiness of a target: None, "" and () are falsy
TargetTruthy(target) ==
    target \notin {NoTarget, StrTarget(""), TupleTarget(<<>>)}

\* ParserSpec.__post_init__: "ok", or the error constructing the spec raises
PostInit(spec) ==
    IF spec.target = NoTarget /\ spec.filetype # "directory"
    THEN "RegistryError"
    ELSE IF TargetTruthy(spec.target) /\ spec.target.form \notin {"str", "tuple"}
         THEN "RegistryError"
         ELSE "ok"

-----------------------------------------------------------------------------
(* registry.py: ParserRegistry *)

\* dict.get(program, []) : no key is inserted
RegistryGet(reg, program) ==
    IF program \in DOMAIN reg THEN reg[program] ELSE <<>>

\* defaultdict.__getitem__ : a missing key is inserted with an empty list
RegistryTouch(reg, program) ==
    IF program \in DOMAIN reg THEN reg ELSE reg @@ (program :> <<>>)

\* Conflicts without the calctype test: any equal target clashes
ConflictsAnyCalctype(parser_spec, registered_spec) ==
    /\ parser_spec.target # NoTarget
    /\ registered_spec.target = parser_spec.target

\* the condition of the loop in register, for one registered spec
Conflicts(parser_spec, registered_spec) ==
    /\ parser_spec.target # NoTarget
    /\ registered_spec.target = parser_spec.target
    /\ ToSet(parser_spec.calctypes) \cap ToSet(registered_spec.calctypes) # {}

\* ParserRegistry.register
RegisterOp(reg, parser_spec) ==
    LET specs == RegistryGet(reg, parser_spec.program) IN
    IF \E i \in 1..Len(specs) : Conflicts(parser_spec, specs[i])
    THEN [status |-> "RegistryError", registry |-> reg]
    ELSE [status |-> "ok",
          registry |-> [p \in DOMAIN reg \cup {parser_spec.program} |->
                          IF p = parser_spec.program
                          THEN Append(specs, parser_spec)
                          ELSE reg[p]]]

\* the filetype filter of get_parsers
FilterFiletype(specs, filetype) ==
    IF Truthy(filetype)
    THEN SelectSeq(specs, LAMBDA ps : ps.filetype = filetype)
    ELSE specs

\* FilterCalctype keeping the specs that do not list the calctype
FilterCalctypeInverted(specs, calctype) ==
    IF Truthy(calctype)
    THEN SelectSeq(specs, LAMBDA ps : calctype \notin ToSet(ps.calctypes))
    ELSE specs

\* the calctype filter of get_parsers
FilterCalctype(specs, calctype) ==
    IF Truthy(calctype)
    THEN SelectSeq(specs, LAMBDA ps : calctype \in ToSet(ps.calctypes))
    ELSE specs

\* get_parsers testing for emptiness after the filters instead of before
GetParsersRaiseWhenFilteredEmpty(reg, program, filetype, calctype) ==
    LET reg1 == RegistryTouch(reg, program)
        found == FilterCalctype(FilterFiletype(reg1[program], filetype), calctype)
    IN  IF found = <<>>
        THEN [status |-> "RegistryError", value |-> <<>>, registry |-> reg1]
        ELSE [status |-> "ok", value |-> found, registry |-> reg1]

\* get_parsers removing the specs it returns from the program's list
GetParsersConsuming(reg, program, filetype, calctype) ==
    LET reg1 == RegistryTouch(reg, program)
        parser_specs == reg1[program]
        found == FilterCalctype(FilterFiletype(parser_specs, filetype), calctype)
    IN  IF parser_specs = <<>>
        THEN [status |-> "RegistryError", value |-> <<>>, registry |-> reg1]
        ELSE [status |-> "ok", value |-> found,
              registry |-> [reg1 EXCEPT ![program] =
                              SelectSeq(parser_specs, LAMBDA ps : ps \notin ToSet(found))]]

\* ParserRegistry.get_parsers
GetParsersOp(reg, program, filetype, calctype) ==
    LET reg1 == RegistryTouch(reg, program)
        parser_specs == reg1[program]
    IN  IF parser_specs = <<>>
        THEN [status |-> "RegistryError", value |-> <<>>, registry |-> reg1]
        ELSE [status |-> "ok",
              value |-> FilterCalctype(FilterFiletype(parser_specs, filetype), calctype),
              registry |-> reg1]

\* ParserRegistry.supported_programs: the keys of the dict (as a set: the
\* model keeps no insertion order of the keys)
SupportedProgramsOp(reg) == DOMAIN reg

\* ParserRegistry.supported_filetypes: the filetypes of get_parsers(program)
SupportedFiletypesOp(reg, program) ==
    LET r == GetParsersOp(reg, program, None, None)
    IN  [status |-> r.status,
         value |-> {r.value[i].filetype : i \in 1..Len(r.value)},
         registry |-> r.registry]

\* a parser function: the module that defines it and its name
Parser(module, name) == [module |-> module, name |-> name]

\* ParserRegistry.get_spec: the first registered spec of the parser function
GetSpecOp(reg, parser) ==
    LET hits == {h \in UNION {{<<p, i>> : i \in 1..Len(reg[p])} : p \in DOMAIN reg} :
                    /\ reg[h[1]][h[2]].program = parser.module
                    /\ reg[h[1]][h[2]].parser = parser.name}
    IN  IF hits = {}
        THEN [status |-> "RegistryError", value |-> None]
        ELSE LET h == CHOOSE g \in hits : \A k \in hits : g[2] <= k[2]
             IN  [status |-> "ok", value |-> reg[h[1]][h[2]]]

RECURSIVE SumLen(_, _)
SumLen(reg, ps) ==
    IF ps = {} THEN 0
    ELSE LET p == CHOOSE q \in ps : TRUE
         IN Len(reg[p]) + SumLen(reg, ps \ {p})

NumRegistered(reg) == SumLen(reg, DOMAIN reg)

NoCall == [op |-> "none"]

\* the decorator's spec construction and registry.register(spec); omitted
\* records whether the decorator was called without calctypes
Decorator(spec, omitted) ==
    /\ NumRegistered(registry) < MaxSpecs
    /\ LET made == PostInit(spec)
           r == RegisterOp(registry, spec)
       IN  IF made # "ok"
           THEN /\ registry' = registry
                /\ regRet' = [op |-> "register", spec |-> spec, before |-> registry,
                              status |-> made, omitted |-> omitted]
           ELSE /\ registry' = r.registry
                /\ regRet' = [op |-> "register", spec |-> spec, before |-> registry,
                              status |-> r.status, omitted |-> omitted]
    /\ UNCHANGED <<dc, dcWritten, dcRet, dec, calls, env, gen, enc, cli>>

\* the register decorator called with a calctypes list
Register(spec) == Decorator(spec, FALSE)

\* the register decorator called without calctypes (calctypes=None)
RegisterDefault(program, sh, required) ==
    Decorator(MkSpec(program, sh, DefaultCalctypes(FALSE, <<>>), required), TRUE)

GetParsers(program, filetype, calctype) ==
    /\ LET r == GetParsersOp(registry, program, filetype, calctype)
       IN  /\ registry' = r.registry
           /\ regRet' = [op |-> "get_parsers", program |-> program,
                         filetype |-> filetype, calctype |-> calctype,
                         before |-> registry, status |-> r.status, value |-> r.value]
    /\ UNCHANGED <<dc, dcWritten, dcRet, dec, calls, env, gen, enc, cli>>

SupportedPrograms ==
    /\ regRet' = [op |-> "supported_programs", before |-> registry, status |-> "ok",
                  value |-> SupportedProgramsOp(registry)]
    /\ UNCHANGED <<registry, dc, dcWritten, dcRet, dec, calls, env, gen, enc, cli>>

SupportedFiletypes(program) ==
    /\ LET r == SupportedFiletypesOp(registry, program)
       IN  /\ registry' = r.registry
           /\ regRet' = [op |-> "supported_filetypes", program |-> program,
                         before |-> registry, status |-> r.status, value |-> r.value]
    /\ UNCHANGED <<dc, dcWritten, dcRet, dec, calls, env, gen, enc, cli>>

GetSpec(parser) ==
    /\ LET r == GetSpecOp(registry, parser)
       IN  regRet' = [op |-> "get_spec", parser |-> parser, before |-> registry,
                      status |-> r.status, value |-> r.value]
    /\ UNCHANGED <<registry, dc, dcWritten, dcRet, dec, calls, env, gen, enc, cli>>

\* the parser functions get_spec is asked about
ParserArgs ==
    {Parser("crest", "parse_energy"), Parser("crest", "parse_version"),
     Parser("terachem", "parse_energy")}

FileTypeArgs == {None, "stdout", "directory"}
CalcTypeArgs == {None, "energy"}

InitRegistry ==
    /\ registry = << >>
    /\ regRet = NoCall
    /\ dc = << >>
    /\ dcWritten = {}
    /\ dcRet = NoCall
    /\ dec = NoCall
    /\ calls = << >>
    /\ env = << >>
    /\ gen = NoCall
    /\ enc = NoCall
    /\ cli = NoCall

NextRegistry ==
    \/ \E spec \in SpecCandidates : Register(spec)
    \/ \E sh \in {VersionShape, EnergyShape} : RegisterDefault("crest", sh, TRUE)
    \/ \E p \in Programs \cup {UnknownProgram}, ft \in FileTypeArgs, ct \in CalcTypeArgs :
          GetParsers(p, ft, ct)
    \/ SupportedPrograms
    \/ \E p \in Programs \cup {UnknownProgram} : SupportedFiletypes(p)
    \/ \E parser \in ParserArgs : GetSpec(parser)

SpecRegistry == InitRegistry /\ [][NextRegistry]_vars

-----------------------------------------------------------------------------
(* models.py: DataCollector *)

\* A Python value is a tree: a function from relative paths to nodes, the
\* root at <<>>. A dict node has its entries below it; a float or str node
\* has nothing below it. The DataCollector is itself a dict.
DictNode == [kind |-> "dict", v |-> "{}"]
Num(x) == (<<>> :> [kind |-> "num", v |-> x])
Str(x) == (<<>> :> [kind |-> "str", v |-> x])
EmptyDict == (<<>> :> DictNode)
Dict1(k, val) == EmptyDict @@ [q \in {<<k>> \o r : r \in DOMAIN val} |-> val[SubSeq(q, 2, Len(q))]]

\* `key in obj` for a str obj: the model's strings and keys are single
\* tokens, so key is a substring of obj exactly when they are equal
StrContains(s, key) == s = key

\* the value held at path p of tree d (p must be a path of d)
Subtree(d, p) ==
    [r \in {SubSeq(q, Len(p) + 1, Len(q)) :
              q \in {x \in DOMAIN d : Len(x) >= Len(p) /\ SubSeq(x, 1, Len(p)) = p}} |->
        d[p \o r]]

\* d[key] = value, at the dict found at path p
Graft(d, p, key, value) ==
    LET at == Append(p, key)
    IN  [q \in DOMAIN d \cup {at \o r : r \in DOMAIN value} |->
            IF Len(q) >= Len(at) /\ SubSeq(q, 1, Len(at)) = at
            THEN value[SubSeq(q, Len(at) + 1, Len(q))]
            ELSE d[q]]

\* the loop `for key in keys[:-1]: d = d.setdefault(key, {})`, from the
\* object at path p: a missing key gets an empty dict; setdefault on a
\* float or str raises AttributeError
RECURSIVE Walk(_, _, _)
Walk(d, p, ks) ==
    IF ks = <<>>
    THEN [status |-> "ok", dc |-> d, at |-> p]
    ELSE IF d[p].kind # "dict"
    THEN [status |-> "AttributeError", dc |-> d, at |-> p]
    ELSE LET q == Append(p, Head(ks))
             d1 == IF q \in DOMAIN d THEN d ELSE d @@ (q :> DictNode)
         IN  Walk(d1, q, Tail(ks))

\* Store without the membership test: the last write wins
StoreOverwrite(d, p, key, value) ==
    IF d[p].kind = "dict"
    THEN [status |-> "ok", dc |-> Graft(d, p, key, value)]
    ELSE [status |-> "TypeError", dc |-> d]

\* Store testing the key against the collector itself instead of the dict reached
StoreTopLevelTest(d, p, key, value) ==
    IF d[p].kind = "dict"
    THEN IF <<key>> \in DOMAIN d
         THEN [status |-> "DataCollectorError", dc |-> d]
         ELSE [status |-> "ok", dc |-> Graft(d, p, key, value)]
    ELSE [status |-> "TypeError", dc |-> d]

\* the test `keys[-1] in d` and the assignment `d[keys[-1]] = value`
Store(d, p, key, value) ==
    CASE d[p].kind = "dict" ->
            IF Append(p, key) \in DOMAIN d
            THEN [status |-> "DataCollectorError", dc |-> d]
            ELSE [status |-> "ok", dc |-> Graft(d, p, key, value)]
      [] d[p].kind = "str" ->
            IF StrContains(d[p].v, key)
            THEN [status |-> "DataCollectorError", dc |-> d]
            ELSE [status |-> "TypeError", dc |-> d]
      [] OTHER -> [status |-> "TypeError", dc |-> d]

\* DataCollector.add_data: the outcome and the collector it leaves
AddDataOp(d, target, value) ==
    LET keys == target.keys IN
    IF keys = <<>>
    THEN [status |-> "IndexError", dc |-> d]
    ELSE LET w == Walk(d, <<>>, SubSeq(keys, 1, Len(keys) - 1))
         IN  IF w.status # "ok"
             THEN [status |-> w.status, dc |-> w.dc]
             ELSE Store(w.dc, w.at, keys[Len(keys)], value)

\* the targets and values add_data is called with
DataTargets ==
    { StrTarget("a"), TupleTarget(<<"a">>), TupleTarget(<<"a", "b">>),
      TupleTarget(<<"a", "c">>), TupleTarget(<<"a", "b", "c">>), StrTarget("b") }

DataValues == { Num("1.0"), Num("2.0"), Str("b"), Dict1("b", Num("1.0")) }

AddData(target, value) ==
    /\ LET r == AddDataOp(dc, target, value)
       IN  /\ dc' = r.dc
           /\ dcWritten' = IF r.status = "ok" THEN dcWritten \cup {target} ELSE dcWritten
           /\ dcRet' = [op |-> "add_data", target |-> target, value |-> value,
                        before |-> dc, seen |-> dcWritten, status |-> r.status]
    /\ UNCHANGED <<registry, regRet, dec, calls, env, gen, enc, cli>>

InitCollector ==
    /\ dc = EmptyDict
    /\ dcWritten = {}
    /\ dcRet = NoCall
    /\ dec = NoCall
    /\ calls = << >>
    /\ env = << >>
    /\ gen = NoCall
    /\ enc = NoCall
    /\ cli = NoCall
    /\ registry = << >>
    /\ regRet = NoCall
    /\ dec = NoCall

NextCollector == \E target \in DataTargets, value \in DataValues : AddData(target, value)

SpecCollector == InitCollector /\ [][NextCollector]_vars

-----------------------------------------------------------------------------
(* Properties of the ParserRegistry (SpecRegistry) *)

Registered == regRet.op = "register" /\ PostInit(regRet.spec) = "ok"
Looked == regRet.op = "get_parsers"

Overlap(a, b) == ToSet(a.calctypes) \cap ToSet(b.calctypes) # {}

\* C1 as stated: register raises RegistryError whenever the program already
\* has a spec with an equal target (None = None included) and overlapping
\* calctypes.
C1_EqualTargetOverlapFails ==
    Registered =>
        LET olds == RegistryGet(regRet.before, regRet.spec.program) IN
        (\E i \in 1..Len(olds) :
            olds[i].target = regRet.spec.target /\ Overlap(olds[i], regRet.spec))
            => regRet.status = "RegistryError"

\* C1 amended: register raises RegistryError, leaving the registry as it
\* was, exactly when the program already has a spec with an equal target
\* that is not None and overlapping calctypes; in every other case (disjoint
\* calctypes, another target, a None target) it appends the spec to the
\* program's list and leaves the other programs' lists alone.
C1_RegisterConflictRule ==
    Registered =>
        LET spec == regRet.spec
            olds == RegistryGet(regRet.before, spec.program)
            clash == \E i \in 1..Len(olds) :
                        /\ spec.target # NoTarget
                        /\ olds[i].target = spec.target
                        /\ Overlap(olds[i], spec)
        IN  IF clash
            THEN regRet.status = "RegistryError" /\ registry = regRet.before
            ELSE /\ regRet.status = "ok"
                 /\ registry[spec.program] = Append(olds, spec)
                 /\ \A p \in DOMAIN regRet.before \ {spec.program} :
                        p \in DOMAIN registry /\ registry[p] = regRet.before[p]

\* C1 witness: a registration is refused for an equal target with
\* overlapping, but not equal, calctypes
C1_Witness ==
    /\ Registered
    /\ regRet.status = "RegistryError"
    /\ \E i \in 1..Len(regRet.before[regRet.spec.program]) :
          regRet.before[regRet.spec.program][i].calctypes # regRet.spec.calctypes

\* C9: get_parsers raises RegistryError exactly when the program has no
\* registered spec; with specs registered it returns a list, which is empty
\* when no spec passes the filters.
C9_NoParsersOnlyWhenNoneRegistered ==
    Looked =>
        (regRet.status = "RegistryError"
            <=> RegistryGet(regRet.before, regRet.program) = <<>>)

\* C9 witness: specs are registered, none passes the filters, [] is returned
C9_Witness ==
    /\ Looked
    /\ regRet.status = "ok"
    /\ regRet.value = <<>>
    /\ Len(regRet.before[regRet.program]) > 0

\* whether a registered spec passes the filters given to get_parsers
Passes(ps, filetype, calctype) ==
    /\ filetype = None \/ ps.filetype = filetype
    /\ calctype = None \/ \E i \in 1..Len(ps.calctypes) : ps.calctypes[i] = calctype

\* C10: get_parsers returns the registered specs of the program that pass
\* the filetype and calctype filters, each once, in registration order, and
\* no spec of another program.
C10_FilteredInRegistrationOrder ==
    (Looked /\ regRet.status = "ok") =>
        LET regd == regRet.before[regRet.program]
            got == regRet.value
            sel == {i \in 1..Len(regd) : Passes(regd[i], regRet.filetype, regRet.calctype)}
        IN  /\ Len(got) = Cardinality(sel)
            /\ \E f \in [1..Len(got) -> sel] :
                  /\ \A j, k \in 1..Len(got) : j < k => f[j] < f[k]
                  /\ \A j \in 1..Len(got) : got[j] = regd[f[j]]
            /\ \A j \in 1..Len(got) : got[j].program = regRet.program

\* C10 witness: two specs are registered, the filters keep the second only
C10_Witness ==
    /\ Looked
    /\ regRet.status = "ok"
    /\ Len(regRet.before[regRet.program]) = 2
    /\ regRet.value = <<regRet.before[regRet.program][2]>>

\* the registered spec is among get_parsers(program, calctype=c), with or
\* without the spec's filetype as filter, for every calculation type c
AppliesToAll(reg, spec) ==
    \A c \in ToSet(CalcType), ft \in {None, spec.filetype} :
        LET r == GetParsersOp(reg, spec.program, ft, c)
        IN  r.status = "ok" /\ spec \in ToSet(r.value)

\* C11 as stated: a spec registered with an empty calctypes list, or with
\* calctypes omitted, is returned by get_parsers(program, calctype=c) for
\* every calculation type c.
C11_EmptyOrOmittedAppliesToAll ==
    (Registered /\ regRet.status = "ok"
        /\ (regRet.omitted \/ regRet.spec.calctypes = <<>>))
        => AppliesToAll(registry, regRet.spec)

\* C11 amended: a spec registered with calctypes omitted (None) lists every
\* CalcType and is returned by get_parsers(program, calctype=c) for every
\* calculation type c; a spec registered with an explicit empty list is
\* returned for no calculation type.
C11_OmittedAppliesToAll ==
    (Registered /\ regRet.status = "ok") =>
        /\ regRet.omitted =>
              /\ regRet.spec.calctypes = CalcType
              /\ AppliesToAll(registry, regRet.spec)
        /\ regRet.spec.calctypes = <<>> =>
              \A c \in ToSet(CalcType) :
                  regRet.spec \notin
                      ToSet(GetParsersOp(registry, regRet.spec.program, None, c).value)

\* C11 witness: a spec is registered without calctypes next to a spec that
\* lists its calctypes
C11_Witness ==
    /\ Registered
    /\ regRet.status = "ok"
    /\ regRet.omitted
    /\ Len(registry[regRet.spec.program]) = 2

LookupOps == {"get_parsers", "supported_filetypes", "supported_programs", "get_spec"}

\* the programs with at least one registered spec
ProgramsWithSpecs(reg) == {p \in DOMAIN reg : reg[p] # <<>>}

\* C12 as stated: a lookup (get_parsers, supported_filetypes,
\* supported_programs, get_spec), whether it succeeds or raises, leaves the
\* registry as it was, and supported_programs() returns exactly the programs
\* that have at least one registered spec.
C12_LookupsArePureReads ==
    /\ regRet.op \in LookupOps => registry = regRet.before
    /\ regRet.op = "supported_programs" =>
          regRet.value = ProgramsWithSpecs(regRet.before)

\* a non-directory ParserSpec without a usable target: None, "" or ()
LacksTarget(spec) == spec.filetype # "directory" /\ ~TargetTruthy(spec.target)

\* C13 as stated: constructing a non-directory ParserSpec whose target is
\* None, "" or () raises RegistryError, so the registry never holds such a
\* spec; a directory ParserSpec with target None is constructed.
C13_EmptyTargetRejected ==
    /\ regRet.op = "register" =>
          /\ LacksTarget(regRet.spec) =>
                regRet.status = "RegistryError" /\ registry = regRet.before
          /\ (regRet.spec.filetype = "directory" /\ regRet.spec.target = NoTarget) =>
                PostInit(regRet.spec) = "ok"
    /\ \A p \in DOMAIN registry : \A i \in 1..Len(registry[p]) :
          ~LacksTarget(registry[p][i])

-----------------------------------------------------------------------------
(* parsers/crest.py: the file classifier *)

\* CrestFileType with its members in alphabetical order of their values
CrestFileTypeSorted ==
    <<"crest.engrad", "crestopt.log", "directory", "g98.out", "numhess1", "stdout">>

\* CrestFileType, in declaration order
CrestFileType == <<"stdout", "directory", "numhess1", "g98.out", "crest.engrad", "crestopt.log">>

\* the directory arguments: None, a path that is no directory, a directory
Directories == {None, "missing", "outdir"}
DirExists(directory) == directory = "outdir"

Yield(filetype, contents) == [kind |-> "yield", filetype |-> filetype, contents |-> contents]
GenRaise(status) == [kind |-> "raise", filetype |-> status, contents |-> ""]

\* iter_files testing the directory before it yields stdout
IterFilesDirectoryFirst(stdout, directory, exists) ==
    LET dir == IF Truthy(directory) THEN directory ELSE None
        first == IF stdout # None THEN <<Yield("stdout", stdout)>> ELSE <<>>
        aux == SelectSeq(CrestFileType,
                         LAMBDA ft : ft \notin {"stdout", "directory"} /\ ft \in exists)
        files == [i \in 1..Len(aux) |-> Yield(aux[i], aux[i])]
    IN  IF dir = None THEN first
        ELSE IF ~DirExists(dir) THEN <<GenRaise("ParserError")>>
        ELSE first \o <<Yield("directory", dir)>> \o files

\* IterFiles yielding the directory marker and the files without the test
\* of the directory
IterFilesUnchecked(stdout, directory, exists) ==
    LET dir == IF Truthy(directory) THEN directory ELSE None
        first == IF stdout # None THEN <<Yield("stdout", stdout)>> ELSE <<>>
        aux == SelectSeq(CrestFileType,
                         LAMBDA ft : ft \notin {"stdout", "directory"} /\ ft \in exists)
        files == [i \in 1..Len(aux) |-> Yield(aux[i], aux[i])]
    IN  IF dir = None THEN first
        ELSE first \o <<Yield("directory", dir)>> \o files

\* iter_files: what the generator does at each next(), in order; `exists`
\* is the set of auxiliary files present in the directory
IterFiles(stdout, directory, exists) ==
    LET dir == IF Truthy(directory) THEN directory ELSE None
        first == IF stdout # None THEN <<Yield("stdout", stdout)>> ELSE <<>>
        aux == SelectSeq(CrestFileType,
                         LAMBDA ft : ft \notin {"stdout", "directory"} /\ ft \in exists)
        files == [i \in 1..Len(aux) |-> Yield(aux[i], aux[i])]
    IN  IF dir = None THEN first
        ELSE IF ~DirExists(dir) THEN first \o <<GenRaise("ParserError")>>
        ELSE first \o <<Yield("directory", dir)>> \o files

\* parsers/terachem.py iter_files: stdout, then the directory; TeraChem
\* names no auxiliary file
TeraChemIterFiles(stdout, directory, exists) ==
    LET first == IF stdout # None THEN <<Yield("stdout", stdout)>> ELSE <<>>
    IN  IF directory = None THEN first
        ELSE IF ~DirExists(directory) THEN first \o <<GenRaise("ParserError")>>
        ELSE first \o <<Yield("directory", directory)>>

\* mod.iter_files of the program's parser module
ModIterFiles(program, stdout, directory, exists) ==
    IF program = "crest"
    THEN IterFiles(stdout, directory, exists)
    ELSE TeraChemIterFiles(stdout, directory, exists)

\* the stdout arguments of iter_files: None, an empty text, a text
Stdouts == {None, "", "out"}

\* the directory arguments of iter_files: those of Directories and a path
\* that exists but is a file
IterDirectories == Directories \cup {"afile"}

\* the auxiliary files a CREST directory may hold
AuxFiles == {"numhess1", "g98.out", "crest.engrad", "crestopt.log"}

\* files = mod.iter_files(stdout, directory): a generator that has not run yet
IterStart(program, stdout, directory, exists) ==
    /\ gen = NoCall
    /\ gen' = [op |-> "iter_files", program |-> program, stdout |-> stdout,
               directory |-> directory, exists |-> exists,
               todo |-> ModIterFiles(program, stdout, directory, exists),
               yielded |-> <<>>, status |-> "open", round |-> 1, prev |-> <<>>]
    /\ UNCHANGED <<registry, regRet, dc, dcWritten, dcRet, dec, calls, env, enc, cli>>

\* next(files): the generator yields an entry, raises, or is exhausted
IterNext ==
    /\ gen.op = "iter_files" /\ gen.status = "open"
    /\ gen' = IF gen.todo = <<>>
              THEN [gen EXCEPT !.status = "exhausted"]
              ELSE IF Head(gen.todo).kind = "raise"
              THEN [gen EXCEPT !.status = Head(gen.todo).filetype, !.todo = <<>>]
              ELSE [gen EXCEPT !.yielded = Append(gen.yielded,
                                    <<Head(gen.todo).filetype, Head(gen.todo).contents>>),
                               !.todo = Tail(gen.todo)]
    /\ UNCHANGED <<registry, regRet, dc, dcWritten, dcRet, dec, calls, env, enc, cli>>

\* iter_files is invoked once more with the same arguments on the same
\* directory; prev keeps what the first invocation yielded
IterAgain ==
    /\ gen.op = "iter_files" /\ gen.status # "open" /\ gen.round = 1
    /\ gen' = [gen EXCEPT
                 !.todo = ModIterFiles(gen.program, gen.stdout, gen.directory, gen.exists),
                 !.yielded = <<>>, !.status = "open", !.round = 2,
                 !.prev = gen.yielded]
    /\ UNCHANGED <<registry, regRet, dc, dcWritten, dcRet, dec, calls, env, enc, cli>>

InitIterFiles ==
    /\ registry = << >>
    /\ regRet = NoCall
    /\ dc = << >>
    /\ dcWritten = {}
    /\ dcRet = NoCall
    /\ dec = NoCall
    /\ calls = << >>
    /\ env = << >>
    /\ gen = NoCall
    /\ enc = NoCall
    /\ cli = NoCall

NextIterFiles ==
    \/ \E so \in Stdouts, dir \in IterDirectories, ex \in SUBSET AuxFiles :
          /\ DirExists(dir) \/ ex = {}
          /\ IterStart("crest", so, dir, ex)
    \/ \E so \in Stdouts, dir \in IterDirectories : IterStart("terachem", so, dir, {})
    \/ IterNext
    \/ IterAgain

SpecIterFiles == InitIterFiles /\ [][NextIterFiles]_vars

-----------------------------------------------------------------------------
(* codec.py: decode *)

\* programs with a module qccodec.parsers.<program>
ParserModules == {"crest", "terachem"}

\* what a call of a parser function does: return a non-dict value, return
\* a dict (its items in order), or raise
Ret(v) == [kind |-> "value", status |-> "ok", value |-> v, entries |-> <<>>]
RetDict(es) == [kind |-> "mapping", status |-> "ok", value |-> EmptyDict, entries |-> es]
Raise(st) == [kind |-> "raise", status |-> st, value |-> EmptyDict, entries |-> <<>>]
Item(k, v) == [key |-> k, value |-> v]

\* the parser functions of the model and what each may do on some input
ParserOutcomes(parser) ==
    CASE parser = "parse_energy" ->
            {Ret(Num("-76.386")), Raise("MatchNotFoundError")}
      [] parser = "parse_energy2" ->
            {Ret(Num("-1.0")), Raise("MatchNotFoundError")}
      [] parser = "parse_version" ->
            {Ret(Str("3.0.2")), Raise("MatchNotFoundError")}
      [] parser = "parse_conformers" ->
            {RetDict(<<Item("conformers", Str("xyz")), Item("conformer_energies", Num("-1.5"))>>),
             Raise("FileNotFoundError")}
      [] parser = "parse_summary" ->
            {RetDict(<<Item("conformers", Str("xyz2")), Item("energy", Num("-2.0"))>>),
             Raise("MatchNotFoundError")}
      [] parser = "parse_numhess1" ->
            {Ret(Num("0.5")), Raise("ParserError")}
      [] OTHER -> {Raise("MatchNotFoundError")}

DecodeShapes ==
    { [filetype |-> "stdout", target |-> StrTarget("energy"), parser |-> "parse_energy",
       calctypes |-> <<"energy", "gradient">>],
      [filetype |-> "stdout", target |-> TupleTarget(<<"energy">>), parser |-> "parse_energy2",
       calctypes |-> <<"energy">>],
      [filetype |-> "stdout", target |-> TupleTarget(<<"extras", "program_version">>),
       parser |-> "parse_version", calctypes |-> <<"energy", "gradient">>],
      [filetype |-> "directory", target |-> NoTarget, parser |-> "parse_conformers",
       calctypes |-> <<"energy">>],
      [filetype |-> "directory", target |-> NoTarget, parser |-> "parse_summary",
       calctypes |-> <<"energy", "gradient">>],
      [filetype |-> "numhess1", target |-> StrTarget("hessian"), parser |-> "parse_numhess1",
       calctypes |-> <<"energy">>] }

\* the ParserSpecs registered for crest before decode runs
DecodeCandidates ==
    { MkSpec("crest", sh, sh.calctypes, req) : sh \in DecodeShapes, req \in BOOLEAN }

\* the registries that at most n calls of the register decorator build
RECURSIVE BuiltRegistries(_)
BuiltRegistries(n) ==
    IF n = 0 THEN { << >> }
    ELSE LET prev == BuiltRegistries(n - 1)
         IN  prev \cup { RegisterOp(r, spec).registry :
                           r \in prev, spec \in {c \in DecodeCandidates : PostInit(c) = "ok"} }

\* AddEntries stopping after the first item of the dict
AddEntriesFirstOnly(d, entries) ==
    IF entries = <<>>
    THEN [status |-> "ok", dc |-> d]
    ELSE AddDataOp(d, StrTarget(Head(entries).key), Head(entries).value)

\* the loop `for key, value in parsed_value.items(): data_collector.add_data(key, value)`
RECURSIVE AddEntries(_, _)
AddEntries(d, entries) ==
    IF entries = <<>>
    THEN [status |-> "ok", dc |-> d]
    ELSE LET r == AddDataOp(d, StrTarget(Head(entries).key), Head(entries).value)
         IN  IF r.status # "ok" THEN r ELSE AddEntries(r.dc, Tail(entries))

\* Collect writing a targeted value under the last segment of its target only
CollectLastSegment(d, spec, out) ==
    IF out.kind = "mapping"
    THEN AddEntries(d, out.entries)
    ELSE IF spec.target = NoTarget
    THEN [status |-> "AssertionError", dc |-> d]
    ELSE AddDataOp(d, StrTarget(spec.target.keys[Len(spec.target.keys)]), out.value)

\* Collect swallowing the DataCollectorError of a duplicate write
CollectIgnoreConflict(d, spec, out) ==
    LET r == IF out.kind = "mapping"
             THEN AddEntries(d, out.entries)
             ELSE IF spec.target = NoTarget
             THEN [status |-> "AssertionError", dc |-> d]
             ELSE AddDataOp(d, spec.target, out.value)
    IN  IF r.status = "DataCollectorError" THEN [status |-> "ok", dc |-> r.dc] ELSE r

\* the else branch of the try: place the parsed value into the data collector
Collect(d, spec, out) ==
    IF out.kind = "mapping"
    THEN AddEntries(d, out.entries)
    ELSE IF spec.target = NoTarget
    THEN [status |-> "AssertionError", dc |-> d]
    ELSE AddDataOp(d, spec.target, out.value)

\* ParserStep skipping a MatchNotFoundError whatever spec.required says
ParserStepNeverRequired(d, spec, out) ==
    IF out.kind = "raise"
    THEN IF out.status = "MatchNotFoundError"
         THEN [status |-> "continue", dc |-> d]
         ELSE [status |-> out.status, dc |-> d]
    ELSE LET r == Collect(d, spec, out)
         IN  [status |-> IF r.status = "ok" THEN "continue" ELSE r.status, dc |-> r.dc]

\* ParserStep defaulting the field of a skipped optional parser to None
ParserStepDefaultsSkipped(d, spec, out) ==
    IF out.kind = "raise"
    THEN IF out.status = "MatchNotFoundError" /\ ~spec.required
         THEN LET r == IF spec.target = NoTarget
                       THEN [status |-> "ok", dc |-> d]
                       ELSE AddDataOp(d, spec.target, Str("None"))
              IN  [status |-> IF r.status = "ok" THEN "continue" ELSE r.status, dc |-> r.dc]
         ELSE [status |-> out.status, dc |-> d]
    ELSE LET r == Collect(d, spec, out)
         IN  [status |-> IF r.status = "ok" THEN "continue" ELSE r.status, dc |-> r.dc]

\* ParserStep skipping every exception of a parser that is not required
ParserStepSkipsAnyError(d, spec, out) ==
    IF out.kind = "raise"
    THEN IF ~spec.required
         THEN [status |-> "continue", dc |-> d]
         ELSE [status |-> out.status, dc |-> d]
    ELSE LET r == Collect(d, spec, out)
         IN  [status |-> IF r.status = "ok" THEN "continue" ELSE r.status, dc |-> r.dc]

\* one parser call of decode and what decode does with its outcome:
\* "continue" (go on with the next spec) or the exception that ends decode
ParserStep(d, spec, out) ==
    IF out.kind = "raise"
    THEN IF out.status = "MatchNotFoundError" /\ ~spec.required
         THEN [status |-> "continue", dc |-> d]
         ELSE [status |-> out.status, dc |-> d]
    ELSE LET r == Collect(d, spec, out)
         IN  [status |-> IF r.status = "ok" THEN "continue" ELSE r.status, dc |-> r.dc]

\* a calctype argument that is no key of RESULTS_TYPE_MAP
UnknownCalcType == "not_a_calctype"

\* RESULTS_TYPE_MAP
ResultsTypeMap(calctype) ==
    CASE calctype \in {"energy", "gradient", "hessian"} -> "SinglePointResults"
      [] calctype \in {"optimization", "transition_state"} -> "OptimizationResults"
      [] calctype = "conformer_search" -> "ConformerSearchResults"
      [] OTHER -> None

NoResult == [kind |-> "none", value |-> EmptyDict]

\* every parser called with the contents of its file, a directory parser
\* included
CallArgsContentsOnly(spec, args, contents) == <<contents>>

\* how a parser is called: a directory parser gets (directory, stdout,
\* input_data), every other parser gets the contents of its file
CallArgs(spec, args, contents) ==
    IF spec.filetype = "directory"
    THEN <<args.directory, args.stdout, "input_data">>
    ELSE <<contents>>

Finished(d, status, result) ==
    [d EXCEPT !.pc = "done", !.status = status, !.result = result]

\* decode up to the creation of the generator and the DataCollector; reg0
\* records the registry the call found
Begin(args, reg) ==
    LET d0 == [op |-> "decode", pc |-> "files", args |-> args, files |-> <<>>,
               contents |-> "", pending |-> <<>>, dcol |-> EmptyDict, ran |-> <<>>,
               status |-> "running", result |-> NoResult, reg0 |-> reg]
    IN  IF ~Truthy(args.stdout) /\ ~Truthy(args.directory)
        THEN Finished(d0, "ValueError", NoResult)
        ELSE IF args.program \notin ParserModules
        THEN Finished(d0, "DecoderError", NoResult)
        ELSE [d0 EXCEPT !.files = ModIterFiles(args.program, args.stdout,
                                               args.directory, args.exists)]

\* where a decode call stands: the generator raises next, yields next, is
\* exhausted, or a parser is to be called
AtRaise(d) ==
    /\ d.op = "decode" /\ d.pc = "files"
    /\ d.files # <<>> /\ Head(d.files).kind = "raise"
AtFile(d) ==
    /\ d.op = "decode" /\ d.pc = "files"
    /\ d.files # <<>> /\ Head(d.files).kind = "yield"
AtParser(d) == d.op = "decode" /\ d.pc = "parsers"
AtEnd(d) == d.op = "decode" /\ d.pc = "files" /\ d.files = <<>>

\* the generator raises: decode ends with its error
RaiseStep(d) == Finished(d, Head(d.files).filetype, NoResult)

\* the generator yields a file: look up its parsers in the registry
FileStep(d, reg) ==
    LET f == Head(d.files)
        r == GetParsersOp(reg, d.args.program, f.filetype, d.args.calctype)
    IN  [registry |-> r.registry,
         call |-> IF r.status # "ok"
                  THEN Finished(d, r.status, NoResult)
                  ELSE [d EXCEPT !.files = Tail(d.files),
                                 !.contents = f.contents,
                                 !.pending = r.value,
                                 !.pc = IF r.value = <<>> THEN "files" ELSE "parsers"]]

\* the body of `for spec in parser_specs` for the next spec, whose parser
\* does `out`
ParserCall(d, out) ==
    LET spec == Head(d.pending)
        r == ParserStep(d.dcol, spec, out)
        d1 == [d EXCEPT !.dcol = r.dc,
                        !.ran = Append(d.ran,
                                   [spec |-> spec, out |-> out,
                                    args |-> CallArgs(spec, d.args, d.contents),
                                    wrote |-> DOMAIN r.dc \ DOMAIN d.dcol])]
    IN  IF r.status # "continue"
        THEN Finished(d1, r.status, NoResult)
        ELSE [d1 EXCEPT !.pending = Tail(d.pending),
                        !.pc = IF Len(d.pending) = 1 THEN "files" ELSE "parsers"]

\* the generator is exhausted: build and return the result (valid: whether
\* the qcio results model accepts the collected data)
ReturnStep(d, valid) ==
    IF d.args.as_dict
    THEN Finished(d, "ok", [kind |-> "dict", value |-> d.dcol])
    ELSE IF ResultsTypeMap(d.args.calctype) = None
    THEN Finished(d, "KeyError", NoResult)
    ELSE IF ~valid
    THEN Finished(d, "ValidationError", NoResult)
    ELSE Finished(d, "ok", [kind |-> ResultsTypeMap(d.args.calctype), value |-> d.dcol])

DecodeStart(args) ==
    /\ dec = NoCall
    /\ dec' = Begin(args, registry)
    /\ UNCHANGED <<registry, regRet, dc, dcWritten, dcRet, calls, env, gen, enc, cli>>

FilesRaise ==
    /\ AtRaise(dec)
    /\ dec' = RaiseStep(dec)
    /\ UNCHANGED <<registry, regRet, dc, dcWritten, dcRet, calls, env, gen, enc, cli>>

NextFile ==
    /\ AtFile(dec)
    /\ registry' = FileStep(dec, registry).registry
    /\ dec' = FileStep(dec, registry).call
    /\ UNCHANGED <<regRet, dc, dcWritten, dcRet, calls, env, gen, enc, cli>>

RunParser(out) ==
    /\ AtParser(dec)
    /\ out \in ParserOutcomes(Head(dec.pending).parser)
    /\ dec' = ParserCall(dec, out)
    /\ UNCHANGED <<registry, regRet, dc, dcWritten, dcRet, calls, env, gen, enc, cli>>

Return(valid) ==
    /\ AtEnd(dec)
    /\ dec' = ReturnStep(dec, valid)
    /\ UNCHANGED <<registry, regRet, dc, dcWritten, dcRet, calls, env, gen, enc, cli>>

\* the arguments decode is called with
DecodeArgs ==
    { [program |-> p, calctype |-> ct, stdout |-> so, directory |-> dir,
       exists |-> ex, as_dict |-> ad] :
        p \in {"crest", UnknownProgram}, ct \in {"energy", "gradient", UnknownCalcType},
        so \in {None, "out"}, dir \in Directories,
        ex \in {{}, {"numhess1", "crest.engrad"}}, ad \in BOOLEAN }

InitDecode ==
    /\ registry \in BuiltRegistries(MaxSpecs)
    /\ regRet = NoCall
    /\ dc = << >>
    /\ dcWritten = {}
    /\ dcRet = NoCall
    /\ dec = NoCall
    /\ calls = << >>
    /\ env = << >>
    /\ gen = NoCall
    /\ enc = NoCall
    /\ cli = NoCall

NextDecode ==
    \/ \E args \in DecodeArgs :
          /\ DirExists(args.directory) \/ args.exists = {}
          /\ DecodeStart(args)
    \/ FilesRaise
    \/ NextFile
    \/ \E sh \in DecodeShapes : \E out \in ParserOutcomes(sh.parser) : RunParser(out)
    \/ \E valid \in BOOLEAN : Return(valid)

SpecDecode == InitDecode /\ [][NextDecode]_vars

-----------------------------------------------------------------------------
(* codec.py: decode calls in progress at the same time *)

\* the specs registered for crest before the calls start
CallSpecs ==
    << MkSpec("crest", EnergyShape, <<"energy", "gradient">>, TRUE),
       MkSpec("crest", VersionShape, DefaultCalctypes(FALSE, <<>>), FALSE),
       MkSpec("crest", [filetype |-> "directory", target |-> NoTarget,
                        parser |-> "parse_conformers"], <<"energy">>, TRUE) >>

\* registry.register for each spec of a list, in order
RECURSIVE RegisterAll(_, _)
RegisterAll(reg, specs) ==
    IF specs = <<>> THEN reg
    ELSE RegisterAll(RegisterOp(reg, Head(specs)).registry, Tail(specs))

\* the registry once registration is complete: nothing registered for
\* crest, or the specs of CallSpecs
CallRegistries == { << >>, RegisterAll(<< >>, CallSpecs) }

CallParsers == {CallSpecs[i].parser : i \in 1..Len(CallSpecs)}

\* the decode calls made: every parser they reach is handed the same input
\* in each of them (stdout "out", directory "outdir")
CallArgsSet ==
    { [program |-> "crest", calctype |-> "energy", stdout |-> "out",
       directory |-> None, exists |-> {}, as_dict |-> FALSE],
      [program |-> "crest", calctype |-> "energy", stdout |-> "out",
       directory |-> "outdir", exists |-> {}, as_dict |-> TRUE],
      [program |-> "crest", calctype |-> "gradient", stdout |-> "out",
       directory |-> "missing", exists |-> {}, as_dict |-> FALSE] }

\* the top-level keys of a DataCollector
TopKeys(d) == {q[1] : q \in {r \in DOMAIN d : Len(r) = 1}}

\* The parser functions and the results models are functions of their
\* input: out is what each parser does on its input, needs the fields the
\* results model requires; reg is the registry the calls start from. No
\* parser runs on the registry without specs: one behaviour stands for all.
\* what each parser does on its input; when the required parse_energy, the
\* first parser of every call, raises, no other parser runs, so one
\* behaviour of the others stands for all
Behaviours ==
    {f \in [CallParsers -> UNION {ParserOutcomes(q) : q \in CallParsers}] :
        /\ \A q \in CallParsers : f[q] \in ParserOutcomes(q)
        /\ f["parse_energy"].kind = "raise" =>
              \A q \in CallParsers \ {"parse_energy"} : f[q].kind # "raise"}

Envs ==
    { [reg |-> r, out |-> o, needs |-> n] :
        r \in CallRegistries \ {<< >>}, o \in Behaviours, n \in {{}, {"gradient"}} }
    \cup { [reg |-> << >>, out |-> CHOOSE o \in Behaviours : TRUE, needs |-> {}] }

\* whether the results model accepts the collected data
Valid(e, d) == e.needs \subseteq TopKeys(d)

\* a decode call run to its end with no other call in progress
RECURSIVE RunAlone(_, _, _)
RunAlone(d, reg, e) ==
    IF d.pc = "done" THEN d
    ELSE IF AtRaise(d) THEN RunAlone(RaiseStep(d), reg, e)
    ELSE IF AtFile(d)
    THEN RunAlone(FileStep(d, reg).call, FileStep(d, reg).registry, e)
    ELSE IF AtParser(d)
    THEN RunAlone(ParserCall(d, e.out[Head(d.pending).parser]), reg, e)
    ELSE RunAlone(ReturnStep(d, Valid(e, d.dcol)), reg, e)

\* decode(args) alone, on the registry as registration left it
Alone(args, e) == RunAlone(Begin(args, e.reg), e.reg, e)

\* most decode calls in progress at the same time
MaxCalls == 2

Callers == 1..MaxCalls

Running(c) == c # NoCall /\ c.d.pc # "done"
Ended(c) == c # NoCall /\ c.d.pc = "done"

\* call i enters decode; live and after record the calls in progress and
\* the calls that had returned at that moment, alone how the call ends when
\* no other call runs
CallStart(i, args) ==
    /\ calls[i] = NoCall
    /\ calls' = [calls EXCEPT ![i] =
                    [d |-> Begin(args, registry),
                     live |-> {j \in Callers : Running(calls[j])},
                     after |-> {j \in Callers : Ended(calls[j])},
                     alone |-> Alone(args, env)]]
    /\ UNCHANGED <<registry, regRet, dc, dcWritten, dcRet, dec, env, gen, enc, cli>>

CallFilesRaise(i) ==
    /\ calls[i] # NoCall /\ AtRaise(calls[i].d)
    /\ calls' = [calls EXCEPT ![i].d = RaiseStep(@)]
    /\ UNCHANGED <<registry, regRet, dc, dcWritten, dcRet, dec, env, gen, enc, cli>>

CallNextFile(i) ==
    /\ calls[i] # NoCall /\ AtFile(calls[i].d)
    /\ registry' = FileStep(calls[i].d, registry).registry
    /\ calls' = [calls EXCEPT ![i].d = FileStep(@, registry).call]
    /\ UNCHANGED <<regRet, dc, dcWritten, dcRet, dec, env, gen, enc, cli>>

CallRunParser(i) ==
    /\ calls[i] # NoCall /\ AtParser(calls[i].d)
    /\ calls' = [calls EXCEPT ![i].d = ParserCall(@, env.out[Head(@.pending).parser])]
    /\ UNCHANGED <<registry, regRet, dc, dcWritten, dcRet, dec, env, gen, enc, cli>>

CallReturn(i) ==
    /\ calls[i] # NoCall /\ AtEnd(calls[i].d)
    /\ calls' = [calls EXCEPT ![i].d = ReturnStep(@, Valid(env, @.dcol))]
    /\ UNCHANGED <<registry, regRet, dc, dcWritten, dcRet, dec, env, gen, enc, cli>>

InitCalls ==
    /\ env \in Envs
    /\ registry = env.reg
    /\ calls = [i \in Callers |-> NoCall]
    /\ regRet = NoCall
    /\ dc = << >>
    /\ dcWritten = {}
    /\ dcRet = NoCall
    /\ dec = NoCall
    /\ gen = NoCall
    /\ enc = NoCall
    /\ cli = NoCall

NextCalls ==
    \/ \E i \in Callers, args \in CallArgsSet : CallStart(i, args)
    \/ \E i \in Callers : CallFilesRaise(i)
    \/ \E i \in Callers : CallNextFile(i)
    \/ \E i \in Callers : CallRunParser(i)
    \/ \E i \in Callers : CallReturn(i)

SpecCalls == InitCalls /\ [][NextCalls]_vars

-----------------------------------------------------------------------------
(* models.py: NativeInput; encoders/terachem.py, encoders/crest.py; codec.py: encode *)

NativeInputFields(input_file, geometry_file, geometry_filename) ==
    [input_file |-> input_file, geometry_file |-> geometry_file,
     geometry_filename |-> geometry_filename]

NoValue == [kind |-> "none"]

\* NativeInput construction without the test of __post_init__
NativeInputUnchecked(input_file, geometry_file, geometry_filename) ==
    [status |-> "ok",
     value |-> NativeInputFields(input_file, geometry_file, geometry_filename)]

\* NativeInput(...): the dataclass and its __post_init__
NativeInput(input_file, geometry_file, geometry_filename) ==
    IF Truthy(geometry_file) /\ ~Truthy(geometry_filename)
    THEN [status |-> "ValueError", value |-> NoValue]
    ELSE [status |-> "ok",
          value |-> NativeInputFields(input_file, geometry_file, geometry_filename)]

\* most keywords of a ProgramInput
MaxKeywords == 2

Keyword(k, v) == [key |-> k, value |-> v]

\* the runtypes validate_input knows, and one it does not
Runtypes ==
    {"imtd-gc", "imtd-smtd", "entropy", "nci", "nci-mtd", "optimize", "ancopt",
     "singlepoint", "numhess", "bogus"}

\* the keyword items of the model's ProgramInputs
KeywordItems ==
    { Keyword("charge", "-1"), Keyword("uhf", "0"), Keyword("spinmult", "1"),
      Keyword("run", "energy"), Keyword("basis", "sto-3g"), Keyword("method", "hf"),
      Keyword("purify", "False"), Keyword("maxit", "100") }
    \cup { Keyword("runtype", rt) : rt \in Runtypes }

\* keywords: a dict, in insertion order, of at most n items
RECURSIVE KeywordLists(_)
KeywordLists(n) ==
    IF n = 0 THEN { <<>> }
    ELSE LET shorter == KeywordLists(n - 1)
         IN  shorter \cup
             UNION { { Append(kws, it) :
                         it \in {x \in KeywordItems :
                                   \A i \in 1..Len(kws) : kws[i].key # x.key} } :
                     kws \in shorter }

HasKey(kws, k) == \E i \in 1..Len(kws) : kws[i].key = k
Lookup(kws, k) == kws[CHOOSE i \in 1..Len(kws) : kws[i].key = k].value

\* the ProgramInputs encoded: any calctype, any keywords, one structure
\* (water, charge 0, multiplicity 1) and one model
ProgramInputs ==
    { [calctype |-> ct, keywords |-> kws,
       structure |-> [charge |-> "0", multiplicity |-> 1, xyz |-> "water.xyz"],
       model |-> [method |-> "hf", basis |-> "sto-3g"]] :
        ct \in ToSet(CalcType), kws \in KeywordLists(MaxKeywords) }

\* encoders/terachem.py
TeraChemSupported == {"energy", "gradient", "hessian", "optimization", "transition_state"}
XYZ_FILENAME == "geometry.xyz"
PADDING == 20

\* the value of the run line
TeraChemRun(calctype) ==
    CASE calctype = "hessian" -> "frequencies"
      [] calctype = "optimization" -> "minimize"
      [] calctype = "transition_state" -> "ts"
      [] OTHER -> calctype

\* f"{key:<{PADDING}} {value}": the key, the blanks that pad it to PADDING
\* columns and separate it from the value, the value
Line(key, value) ==
    [key |-> key,
     blanks |-> (IF Len(key) < PADDING THEN PADDING - Len(key) ELSE 0) + 1,
     value |-> value]

\* str(value).lower() on the keyword values of the model
Lower(v) ==
    CASE v = "False" -> "false"
      [] v = "True" -> "true"
      [] OTHER -> v

\* non_keywords without "method"
NonKeywordsNoMethod == {"charge", "spinmult", "run", "basis"}

\* the keys of non_keywords
NonKeywords == {"charge", "spinmult", "run", "basis", "method"}

\* the loop over inp_obj.keywords.items()
RECURSIVE KeywordLines(_, _)
KeywordLines(kws, inp_lines) ==
    IF kws = <<>> THEN [status |-> "ok", lines |-> inp_lines]
    ELSE IF Head(kws).key \in NonKeywords
    THEN [status |-> "EncoderError", lines |-> inp_lines]
    ELSE KeywordLines(Tail(kws),
                      Append(inp_lines, Line(Head(kws).key, Lower(Head(kws).value))))

\* terachem.encode
TeraChemEncode(inp_obj) ==
    LET inp_lines == << Line("run", TeraChemRun(inp_obj.calctype)),
                        Line("coordinates", XYZ_FILENAME),
                        Line("charge", inp_obj.structure.charge),
                        Line("spinmult", inp_obj.structure.multiplicity),
                        Line("method", inp_obj.model.method),
                        Line("basis", inp_obj.model.basis) >>
        r == KeywordLines(inp_obj.keywords, inp_lines)
    IN  IF r.status # "ok"
        THEN [status |-> r.status, value |-> NoValue]
        ELSE NativeInput(r.lines, inp_obj.structure.xyz, XYZ_FILENAME)

\* encoders/crest.py
CrestSupported == {"conformer_search", "optimization", "energy", "gradient", "hessian"}

\* valid_runtypes of _validate_runtype_calctype; the empty set it starts
\* from for a calctype of no branch
ValidRuntypes(calctype) ==
    CASE calctype = "conformer_search" -> {"imtd-gc", "imtd-smtd", "entropy", "nci", "nci-mtd"}
      [] calctype = "optimization" -> {"optimize", "ancopt"}
      [] calctype \in {"energy", "gradient"} -> {"singlepoint"}
      [] calctype = "hessian" -> {"numhess"}
      [] OTHER -> {}

\* _validate_runtype_calctype accepting every runtype for a hessian
ValidateRuntypeNoHessian(runtype, calctype) ==
    IF /\ calctype \in {"conformer_search", "optimization", "energy", "gradient"}
       /\ runtype \notin ValidRuntypes(calctype)
    THEN "EncoderError"
    ELSE "ok"

\* _validate_runtype_calctype: invalid_runtype is set in the branch of the
\* calctype only
ValidateRuntypeCalctype(runtype, calctype) ==
    IF /\ calctype \in {"conformer_search", "optimization", "energy", "gradient", "hessian"}
       /\ runtype \notin ValidRuntypes(calctype)
    THEN "EncoderError"
    ELSE "ok"

\* crest.validate_input
ValidateInput(inp_obj) ==
    IF HasKey(inp_obj.keywords, "charge") \/ HasKey(inp_obj.keywords, "uhf")
    THEN "EncoderError"
    ELSE IF HasKey(inp_obj.keywords, "runtype")
    THEN ValidateRuntypeCalctype(Lookup(inp_obj.keywords, "runtype"), inp_obj.calctype)
    ELSE "ok"

\* the default runtype of _to_toml_dict
DefaultRuntype(calctype) ==
    CASE calctype = "conformer_search" -> "imtd-gc"
      [] calctype = "optimization" -> "optimize"
      [] calctype \in {"energy", "gradient"} -> "singlepoint"
      [] calctype = "hessian" -> "numhess"
      [] OTHER -> None

\* crest._to_toml_dict
ToTomlDict(inp_obj, struct_filename) ==
    LET given == HasKey(inp_obj.keywords, "runtype")
        runtype == IF given THEN Lookup(inp_obj.keywords, "runtype")
                   ELSE DefaultRuntype(inp_obj.calctype)
    IN  IF ~given /\ runtype = None
        THEN [status |-> "EncoderError", value |-> NoValue]
        ELSE [status |-> "ok",
              value |-> [keywords |-> inp_obj.keywords, threads |-> "cpu_count",
                         input |-> struct_filename, runtype |-> runtype,
                         level |-> [method |-> inp_obj.model.method,
                                    charge |-> inp_obj.structure.charge,
                                    uhf |-> inp_obj.structure.multiplicity - 1]]]

\* crest.encode
CrestEncode(inp_obj) ==
    LET toml == ToTomlDict(inp_obj, "structure.xyz") IN
    IF ValidateInput(inp_obj) # "ok"
    THEN [status |-> ValidateInput(inp_obj), value |-> NoValue]
    ELSE IF toml.status # "ok"
    THEN [status |-> toml.status, value |-> NoValue]
    ELSE NativeInput(toml.value, inp_obj.structure.xyz, "structure.xyz")

\* programs with a module qccodec.encoders.<program>
EncoderModules == {"crest", "terachem"}

SupportedCalctypes(program) ==
    IF program = "crest" THEN CrestSupported ELSE TeraChemSupported

ModEncode(program, inp_obj) ==
    IF program = "crest" THEN CrestEncode(inp_obj) ELSE TeraChemEncode(inp_obj)

\* codec.encode without the test of SUPPORTED_CALCTYPES
EncodeUnchecked(inp_data, program) ==
    IF program \notin EncoderModules
    THEN [status |-> "ModuleNotFoundError", value |-> NoValue, invoked |-> FALSE]
    ELSE [status |-> ModEncode(program, inp_data).status,
          value |-> ModEncode(program, inp_data).value, invoked |-> TRUE]

\* codec.encode; invoked records whether encoder.encode was called
EncodeOp(inp_data, program) ==
    IF program \notin EncoderModules
    THEN [status |-> "ModuleNotFoundError", value |-> NoValue, invoked |-> FALSE]
    ELSE IF inp_data.calctype \notin SupportedCalctypes(program)
    THEN [status |-> "EncoderError", value |-> NoValue, invoked |-> FALSE]
    ELSE [status |-> ModEncode(program, inp_data).status,
          value |-> ModEncode(program, inp_data).value, invoked |-> TRUE]

\* the arguments NativeInput is constructed with
InputFiles == {"tc.in"}
GeometryFiles == {None, "", "water.xyz"}
GeometryFilenames == {None, "", "geometry.xyz"}

NewNativeInput(input_file, geometry_file, geometry_filename) ==
    /\ enc = NoCall
    /\ LET r == NativeInput(input_file, geometry_file, geometry_filename)
       IN  enc' = [op |-> "NativeInput", input_file |-> input_file,
                   geometry_file |-> geometry_file,
                   geometry_filename |-> geometry_filename,
                   status |-> r.status, value |-> r.value]
    /\ UNCHANGED <<registry, regRet, dc, dcWritten, dcRet, dec, calls, env, gen, cli>>

Encode(inp_data, program) ==
    /\ enc = NoCall
    /\ LET r == EncodeOp(inp_data, program)
       IN  enc' = [op |-> "encode", inp |-> inp_data, program |-> program,
                   status |-> r.status, value |-> r.value, invoked |-> r.invoked]
    /\ UNCHANGED <<registry, regRet, dc, dcWritten, dcRet, dec, calls, env, gen, cli>>

\* the program encoders called directly
EncoderEncode(program, inp_obj) ==
    /\ enc = NoCall
    /\ LET r == ModEncode(program, inp_obj)
       IN  enc' = [op |-> "encoder.encode", inp |-> inp_obj, program |-> program,
                   status |-> r.status, value |-> r.value]
    /\ UNCHANGED <<registry, regRet, dc, dcWritten, dcRet, dec, calls, env, gen, cli>>

CrestValidateInput(inp_obj) ==
    /\ enc = NoCall
    /\ enc' = [op |-> "validate_input", inp |-> inp_obj,
               status |-> ValidateInput(inp_obj)]
    /\ UNCHANGED <<registry, regRet, dc, dcWritten, dcRet, dec, calls, env, gen, cli>>

InitEncode ==
    /\ registry = << >>
    /\ regRet = NoCall
    /\ dc = << >>
    /\ dcWritten = {}
    /\ dcRet = NoCall
    /\ dec = NoCall
    /\ calls = << >>
    /\ env = << >>
    /\ gen = NoCall
    /\ enc = NoCall
    /\ cli = NoCall

\* one encoder-side call per run
NextEncode ==
    \/ /\ enc = NoCall
       /\ \E f \in InputFiles, g \in GeometryFiles, n \in GeometryFilenames :
             NewNativeInput(f, g, n)
    \/ /\ enc = NoCall
       /\ \E inp \in ProgramInputs, p \in EncoderModules \cup {UnknownProgram} :
             Encode(inp, p)
    \/ /\ enc = NoCall
       /\ \E inp \in ProgramInputs, p \in EncoderModules : EncoderEncode(p, inp)
    \/ /\ enc = NoCall
       /\ \E inp \in ProgramInputs : CrestValidateInput(inp)

SpecEncode == InitEncode /\ [][NextEncode]_vars

-----------------------------------------------------------------------------
(* cli.py: main *)

\* the command lines: program, calctype, then optionally the path of the
\* stdout file and the directory; "" is an empty argument
CliArgvs ==
    LET ps == {"crest", UnknownProgram}
        cts == {"energy", UnknownCalcType}
        sos == {"crest.out", "nofile", ""}
        dirs == {"outdir", "missing"}
    IN  {<<>>} \cup {<<p>> : p \in ps}
        \cup {<<p, ct>> : p \in ps, ct \in cts}
        \cup {<<p, ct, so>> : p \in ps, ct \in cts, so \in sos}
        \cup {<<p, ct, so, dir>> : p \in ps, ct \in cts, so \in sos, dir \in dirs}

\* the files on disk: path and contents
StdoutFiles == [path \in {"crest.out"} |-> "out"]

\* an uncaught exception ends the interpreter with exit code 1, an argparse
\* error with 2
ExitUncaught == 1
ExitUsage == 2

CliExit(c, code, status) == [c EXCEPT !.pc = "exited", !.exit = code, !.status = status]

\* parser.parse_args(): the two required positionals, the two optional ones
ParseArgs(argv) ==
    LET c0 == [op |-> "main", pc |-> "read", argv |-> argv,
               args |-> [program |-> None, calctype |-> None, stdout |-> None,
                         directory |-> None],
               stdout_contents |-> None, results |-> NoResult, printed |-> <<>>,
               exit |-> None, status |-> "running"]
    IN  IF Len(argv) < 2
        THEN CliExit(c0, ExitUsage, "SystemExit")
        ELSE [c0 EXCEPT !.args = [program |-> argv[1], calctype |-> argv[2],
                                  stdout |-> IF Len(argv) >= 3 THEN argv[3] ELSE None,
                                  directory |-> IF Len(argv) >= 4 THEN argv[4] ELSE None]]

\* Path(args.stdout).read_text() if args.stdout else None
ReadStdout(c) ==
    IF ~Truthy(c.args.stdout)
    THEN [c EXCEPT !.pc = "decode", !.stdout_contents = None]
    ELSE IF c.args.stdout \notin DOMAIN StdoutFiles
    THEN CliExit(c, ExitUncaught, "FileNotFoundError")
    ELSE [c EXCEPT !.pc = "decode", !.stdout_contents = StdoutFiles[c.args.stdout]]

\* the arguments of the decode call of main
MainDecodeArgs(c) ==
    [program |-> c.args.program, calctype |-> c.args.calctype,
     stdout |-> c.stdout_contents, directory |-> c.args.directory,
     exists |-> {}, as_dict |-> FALSE]

\* main with the decode call wrapped in a try that prints and carries on
AfterDecodeCaught(c, d) ==
    [c EXCEPT !.pc = "print", !.results = d.result, !.status = d.status]

\* results = decode(...): the value returned, or the exception, which
\* main does not catch
AfterDecode(c, d) ==
    IF d.status # "ok"
    THEN CliExit(c, ExitUncaught, d.status)
    ELSE [c EXCEPT !.pc = "print", !.results = d.result]

\* print(results.model_dump_json(...)) and the end of main
PrintResults(c) ==
    [c EXCEPT !.pc = "exited", !.printed = <<c.results>>, !.exit = 0,
              !.status = IF c.status = "running" THEN "ok" ELSE c.status]

CliParseArgs(argv) ==
    /\ cli = NoCall
    /\ cli' = ParseArgs(argv)
    /\ UNCHANGED <<registry, regRet, dc, dcWritten, dcRet, dec, calls, env, gen, enc>>

CliReadStdout ==
    /\ cli.op = "main" /\ cli.pc = "read"
    /\ cli' = ReadStdout(cli)
    /\ UNCHANGED <<registry, regRet, dc, dcWritten, dcRet, dec, calls, env, gen, enc>>

CliCallDecode ==
    /\ cli.op = "main" /\ cli.pc = "decode"
    /\ dec = NoCall
    /\ dec' = Begin(MainDecodeArgs(cli), registry)
    /\ cli' = [cli EXCEPT !.pc = "decoding"]
    /\ UNCHANGED <<registry, regRet, dc, dcWritten, dcRet, calls, env, gen, enc>>

CliDecodeEnds ==
    /\ cli.op = "main" /\ cli.pc = "decoding"
    /\ dec.pc = "done"
    /\ cli' = AfterDecode(cli, dec)
    /\ UNCHANGED <<registry, regRet, dc, dcWritten, dcRet, dec, calls, env, gen, enc>>

CliPrint ==
    /\ cli.op = "main" /\ cli.pc = "print"
    /\ cli' = PrintResults(cli)
    /\ UNCHANGED <<registry, regRet, dc, dcWritten, dcRet, dec, calls, env, gen, enc>>

InitCli ==
    /\ registry \in CallRegistries
    /\ regRet = NoCall
    /\ dc = << >>
    /\ dcWritten = {}
    /\ dcRet = NoCall
    /\ dec = NoCall
    /\ calls = << >>
    /\ env = << >>
    /\ gen = NoCall
    /\ enc = NoCall
    /\ cli = NoCall

\* one run of the command; the steps of its decode call are those of decode
NextCli ==
    \/ \E argv \in CliArgvs : CliParseArgs(argv)
    \/ CliReadStdout
    \/ CliCallDecode
    \/ FilesRaise
    \/ NextFile
    \/ \E sh \in DecodeShapes : \E out \in ParserOutcomes(sh.parser) : RunParser(out)
    \/ \E valid \in BOOLEAN : Return(valid)
    \/ CliDecodeEnds
    \/ CliPrint

SpecCli == InitCli /\ [][NextCli]_vars

-----------------------------------------------------------------------------
(* Properties of the DataCollector (SpecCollector) *)

IsPrefix(a, b) == Len(a) <= Len(b) /\ SubSeq(b, 1, Len(a)) = a
Comparable(a, b) == IsPrefix(a, b) \/ IsPrefix(b, a)

AddDataCalled == dcRet.op = "add_data"

\* C2: an add_data to a path that an earlier add_data has already written
\* raises DataCollectorError at that call and writes nothing, whether the
\* path is flat or nested and whichever form (str or tuple) either call used.
C2_SecondWriteConflicts ==
    (AddDataCalled /\ \E t \in dcRet.seen : t.keys = dcRet.target.keys)
        => (dcRet.status = "DataCollectorError" /\ dc = dcRet.before)

\* C2 witness: a flat path written in str form is written again in tuple form
C2_Witness ==
    /\ AddDataCalled
    /\ dcRet.target = TupleTarget(<<"a">>)
    /\ StrTarget("a") \in dcRet.seen
    /\ dcRet.status = "DataCollectorError"

\* C3 as stated: after one successful write to p, a write to any other path
\* q succeeds, also when one of p, q is a proper prefix of the other.
C3_AnyDistinctPathsSucceed ==
    (AddDataCalled /\ Cardinality(dcRet.seen) = 1
        /\ \A t \in dcRet.seen : t.keys # dcRet.target.keys)
        => dcRet.status = "ok"

\* C3 amended: an add_data to a path that is neither a prefix nor an
\* extension of (nor equal to) any path written before succeeds, so two
\* prefix-incomparable paths (siblings under a shared prefix included) can
\* be written in either order.
C3_IncomparablePathsSucceed ==
    (AddDataCalled /\ \A t \in dcRet.seen : ~Comparable(t.keys, dcRet.target.keys))
        => (dcRet.status = "ok"
            /\ dcRet.target.keys \in DOMAIN dc
            /\ Subtree(dc, dcRet.target.keys) = dcRet.value)

\* C3 witness: a sibling under a shared nested prefix is written second
C3_Witness ==
    /\ AddDataCalled
    /\ dcRet.target = TupleTarget(<<"a", "c">>)
    /\ dcRet.seen = {TupleTarget(<<"a", "b">>)}
    /\ dcRet.status = "ok"

-----------------------------------------------------------------------------
(* Properties of decode (SpecDecode) *)

Decoding == dec.op = "decode"
Done == Decoding /\ dec.pc = "done"
\* decode has returned the raw mapping (as_dict=True)
ReturnedDict == Done /\ dec.status = "ok" /\ dec.result.kind = "dict"
Ran == IF Decoding THEN dec.ran ELSE <<>>

NoMatch(c) == c.out.kind = "raise" /\ c.out.status = "MatchNotFoundError"

\* the non-empty prefixes of a target's path
Prefixes(target) == {SubSeq(target.keys, 1, n) : n \in 1..Len(target.keys)}

\* the result paths a parser call hands to add_data
Attempts(c) ==
    CASE c.out.kind = "value" -> IF c.spec.target = NoTarget THEN {} ELSE {c.spec.target.keys}
      [] c.out.kind = "mapping" -> {<<c.out.entries[k].key>> : k \in 1..Len(c.out.entries)}
      [] OTHER -> {}

\* the value a parser call hands to add_data for path q
Attempted(c, q) ==
    IF c.out.kind = "value" THEN c.out.value
    ELSE LET k == CHOOSE k \in 1..Len(c.out.entries) : <<c.out.entries[k].key>> = q
         IN  c.out.entries[k].value

\* C4: a MatchNotFoundError of a required parser ends decode at once: it
\* is the error decode raises, no parser runs after it, no result is returned.
C4_RequiredNoMatchFailsFast ==
    \A i \in 1..Len(Ran) :
        (Ran[i].spec.required /\ NoMatch(Ran[i]))
            => /\ i = Len(Ran)
               /\ Done
               /\ dec.status = "MatchNotFoundError"
               /\ dec.result = NoResult

\* C4 witness: a required parser found no match while another spec of the
\* same file was still to run
C4_Witness ==
    /\ Done
    /\ dec.status = "MatchNotFoundError"
    /\ Len(dec.pending) >= 2
    /\ dec.ran[Len(dec.ran)].spec = Head(dec.pending)

\* C5 as stated: after an optional parser found no match, the raw mapping
\* decode returns has nothing at that spec's target path.
C5_SkippedTargetAbsent ==
    ReturnedDict =>
        \A i \in 1..Len(Ran) :
            (~Ran[i].spec.required /\ NoMatch(Ran[i]) /\ Ran[i].spec.target # NoTarget)
                => Ran[i].spec.target.keys \notin DOMAIN dec.result.value

\* C5 amended: a MatchNotFoundError of an optional parser writes nothing and
\* does not end decode, which goes on with the next spec; in the raw mapping
\* the target path, and every container on the way to it, is absent unless
\* another parser call of the same decode wrote it.
C5_SkippedParserWritesNothing ==
    \A i \in 1..Len(Ran) :
        (~Ran[i].spec.required /\ NoMatch(Ran[i]))
            => /\ Ran[i].wrote = {}
               /\ (i = Len(Ran) /\ Done) => dec.status # "MatchNotFoundError"
               /\ (i = Len(Ran) /\ ~Done) =>
                     (dec.pc = "parsers" <=> dec.pending # <<>>)
               /\ ReturnedDict =>
                     \A q \in Prefixes(Ran[i].spec.target) :
                         q \in DOMAIN dec.result.value
                             => \E j \in 1..Len(Ran) : j # i /\ q \in Ran[j].wrote

\* C5 witness: the optional version parser found no match, a later parser
\* ran, and the returned mapping has no "extras" container
C5_Witness ==
    /\ ReturnedDict
    /\ \E i \in 1..Len(dec.ran) :
          /\ i < Len(dec.ran)
          /\ dec.ran[i].spec.parser = "parse_version"
          /\ ~dec.ran[i].spec.required
          /\ NoMatch(dec.ran[i])
    /\ <<"extras">> \notin DOMAIN dec.result.value

\* the specs decode has to run: for each file yielded, in order, the
\* program's registered specs of that file kind that list the calctype
RECURSIVE Concat(_)
Concat(ss) == IF ss = <<>> THEN <<>> ELSE Head(ss) \o Concat(Tail(ss))

Applicable ==
    LET yielded == IterFiles(dec.args.stdout, dec.args.directory, dec.args.exists)
        regd == RegistryGet(registry, dec.args.program)
    IN  Concat([n \in 1..Len(yielded) |->
                  SelectSeq(regd, LAMBDA ps : /\ ps.filetype = yielded[n].filetype
                                              /\ \E k \in 1..Len(ps.calctypes) :
                                                    ps.calctypes[k] = dec.args.calctype)])

\* the leaves of a tree: the paths with nothing below them
Leaves(t) == {q \in DOMAIN t \ {<<>>} : ~\E x \in DOMAIN t : Len(x) > Len(q) /\ IsPrefix(q, x)}

\* C6: the raw mapping decode returns holds, for every applicable spec
\* whose parser returned a non-dict value, that value at the spec's target
\* path (every applicable spec was run, in order), and no leaf besides these
\* targets and the keys of the dicts parsers returned.
C6_RawMappingHoldsParsedValues ==
    ReturnedDict =>
        /\ [i \in 1..Len(dec.ran) |-> dec.ran[i].spec] = Applicable
        /\ \A i \in 1..Len(dec.ran) :
              dec.ran[i].out.kind = "value"
                  => /\ dec.ran[i].spec.target.keys \in DOMAIN dec.result.value
                     /\ Subtree(dec.result.value, dec.ran[i].spec.target.keys)
                            = dec.ran[i].out.value
        /\ \A q \in Leaves(dec.result.value) :
              \E i \in 1..Len(dec.ran) : q \in Attempts(dec.ran[i])

\* C6 witness: the parsed energy and the nested program version are returned
C6_Witness ==
    /\ ReturnedDict
    /\ <<"energy">> \in DOMAIN dec.result.value
    /\ Subtree(dec.result.value, <<"energy">>) = Num("-76.386")
    /\ <<"extras", "program_version">> \in DOMAIN dec.result.value

\* C7: every item of a dict a parser returned is written on its own at its
\* top-level key: in the raw mapping each key holds its value, and when such
\* a write raises DataCollectorError the key was already there before that
\* parser call (items of one call never clash with each other).
C7_DictItemsWrittenSeparately ==
    /\ ReturnedDict =>
          \A i \in 1..Len(dec.ran) :
              dec.ran[i].out.kind = "mapping" =>
                  \A k \in 1..Len(dec.ran[i].out.entries) :
                      LET e == dec.ran[i].out.entries[k] IN
                      /\ <<e.key>> \in DOMAIN dec.result.value
                      /\ Subtree(dec.result.value, <<e.key>>) = e.value
    /\ (Done /\ dec.status = "DataCollectorError"
             /\ dec.ran[Len(dec.ran)].out.kind = "mapping") =>
          LET c == dec.ran[Len(dec.ran)] IN
          \E k \in 1..Len(c.out.entries) :
              <<c.out.entries[k].key>> \in DOMAIN dec.dcol \ c.wrote

\* C7 witness: both keys of the dict parse_conformers returned are in the
\* raw mapping
C7_Witness ==
    /\ ReturnedDict
    /\ \E i \in 1..Len(dec.ran) : dec.ran[i].spec.parser = "parse_conformers"
    /\ <<"conformers">> \in DOMAIN dec.result.value
    /\ <<"conformer_energies">> \in DOMAIN dec.result.value

\* C8: when two parser calls of one decode hand the same result path to
\* add_data, the second write raises DataCollectorError, which ends decode
\* without a result, and the path keeps the value of the first write.
C8_DuplicateWriteConflicts ==
    \A i, j \in 1..Len(Ran) :
        (i < j /\ Attempts(Ran[i]) \cap Attempts(Ran[j]) # {})
            => /\ j = Len(Ran)
               /\ Done
               /\ dec.status = "DataCollectorError"
               /\ dec.result = NoResult
               /\ \A q \in Attempts(Ran[i]) \cap Attempts(Ran[j]) :
                     /\ q \in DOMAIN dec.dcol
                     /\ Subtree(dec.dcol, q) = Attempted(Ran[i], q)

\* C8 witness: a key of a returned dict equals the target an earlier parser
\* has written
C8_Witness ==
    /\ Done
    /\ dec.status = "DataCollectorError"
    /\ dec.ran[Len(dec.ran)].out.kind = "mapping"
    /\ \E i \in 1..(Len(dec.ran) - 1) :
          /\ dec.ran[i].out.kind = "value"
          /\ dec.ran[i].spec.target.keys \in Attempts(dec.ran[Len(dec.ran)])
\* C18 as stated: decode for a program without a parser module ends with
\* DecoderError before a file is classified, a parser is run or the registry
\* is consulted, and leaves the registry as it was.
C18_UnknownProgramDecoderError ==
    (Decoding /\ dec.args.program \notin ParserModules) =>
        /\ Done
        /\ dec.status = "DecoderError"
        /\ dec.files = <<>> /\ dec.pending = <<>> /\ dec.ran = <<>>
        /\ registry = dec.reg0

\* C19 as stated: decode called with neither stdout nor directory raises
\* DecoderError.
C19_NoInputDecoderError ==
    (Done /\ dec.args.stdout = None /\ dec.args.directory = None) =>
        dec.status = "DecoderError"

\* C20 as stated, for the calls that pass an input to a program with
\* registered parsers: decode with a calctype that has no entry in
\* RESULTS_TYPE_MAP raises DecoderError.
C20_UnsupportedCalctypeDecoderError ==
    (Done /\ ResultsTypeMap(dec.args.calctype) = None
          /\ dec.args.program \in ParserModules
          /\ RegistryGet(dec.reg0, dec.args.program) # <<>>
          /\ (Truthy(dec.args.stdout) \/ Truthy(dec.args.directory))) =>
        dec.status = "DecoderError"

-----------------------------------------------------------------------------
(* Properties of decode calls in progress at the same time (SpecCalls) *)

\* C14 as stated: a decode call repeated with the same arguments after the
\* first has returned, with no registration in between and the directory
\* unchanged, ends as the first did (equal result, or the same error), and
\* the first call leaves the registry exactly as it found it.
C14_DecodeIdempotent ==
    /\ \A i, j \in DOMAIN calls :
          (/\ Ended(calls[i]) /\ Ended(calls[j])
           /\ i \in calls[j].after
           /\ calls[i].d.args = calls[j].d.args)
          => /\ calls[j].d.status = calls[i].d.status
             /\ calls[j].d.result = calls[i].d.result
    /\ \A i \in DOMAIN calls :
          (Ended(calls[i]) /\ \A j \in DOMAIN calls \ {i} : calls[j] = NoCall)
          => registry = calls[i].d.reg0

\* C15: with registration complete, however the steps of the decode calls
\* interleave (a call started and finished inside another call's parser
\* loop included), each call runs the parsers it runs alone, ends with the
\* status and result it ends with alone, and its DataCollector holds the
\* writes of its own parsers only.
C15_CallsIndependent ==
    \A i \in DOMAIN calls :
        calls[i] # NoCall =>
            LET d == calls[i].d
                alone == calls[i].alone
            IN  /\ Len(d.ran) <= Len(alone.ran)
                /\ d.ran = SubSeq(alone.ran, 1, Len(d.ran))
                /\ Ended(calls[i]) =>
                      /\ d.status = alone.status
                      /\ d.result = alone.result
                      /\ d.dcol = alone.dcol
                /\ DOMAIN d.dcol \ {<<>>} \subseteq
                      UNION {d.ran[k].wrote : k \in 1..Len(d.ran)}

\* C15 witness: a call with other arguments started while a call was in its
\* parser loop; both have returned with data
C15_Witness ==
    \E i, j \in DOMAIN calls :
        /\ Ended(calls[i]) /\ Ended(calls[j])
        /\ i \in calls[j].live
        /\ calls[i].d.args # calls[j].d.args
        /\ calls[i].d.status = "ok" /\ calls[j].d.status = "ok"
        /\ calls[i].d.dcol # EmptyDict /\ calls[j].d.dcol # EmptyDict
        /\ calls[i].d.dcol # calls[j].d.dcol

-----------------------------------------------------------------------------
(* Properties of iter_files (SpecIterFiles) *)

Iterating == gen.op = "iter_files"

\* the auxiliary file kinds of a program, in the order they are to be yielded
AuxOrder(program) ==
    IF program = "crest"
    THEN <<"numhess1", "g98.out", "crest.engrad", "crestopt.log">>
    ELSE <<>>

\* the entries a complete iteration is to yield, in order
Expected(program, stdout, directory, exists) ==
    LET present == SelectSeq(AuxOrder(program), LAMBDA f : f \in exists)
    IN  (IF stdout # None THEN << <<"stdout", stdout>> >> ELSE <<>>)
        \o (IF directory # None THEN << <<"directory", directory>> >> ELSE <<>>)
        \o [i \in 1..Len(present) |-> <<present[i], present[i]>>]

\* C16: what iter_files has yielded is always the beginning of: (STDOUT,
\* stdout) if stdout is not None, (DIRECTORY, path) if a directory is
\* given, then one entry per auxiliary file that exists, in declaration
\* order (CREST: numhess1, g98.out, crest.engrad, crestopt.log), absent
\* files being skipped; an exhausted generator has yielded all of it, and a
\* second invocation on the same snapshot yields the same entries.
C16_YieldsInFixedOrder ==
    Iterating =>
        LET want == Expected(gen.program, gen.stdout, gen.directory, gen.exists)
        IN  /\ Len(gen.yielded) <= Len(want)
            /\ gen.yielded = SubSeq(want, 1, Len(gen.yielded))
            /\ gen.status = "exhausted" => gen.yielded = want
            /\ (gen.round = 2 /\ gen.status # "open") => gen.yielded = gen.prev

\* C16 witness: a CREST directory holding numhess1 and crest.engrad only is
\* iterated to the end, with stdout: four entries, g98.out is skipped
C16_Witness ==
    /\ Iterating
    /\ gen.program = "crest"
    /\ gen.status = "exhausted"
    /\ gen.exists = {"numhess1", "crest.engrad"}
    /\ gen.yielded = << <<"stdout", "out">>, <<"directory", "outdir">>,
                        <<"numhess1", "numhess1">>, <<"crest.engrad", "crest.engrad">> >>

\* C17: when the directory argument names a path that does not exist or is
\* not a directory, iter_files yields at most the stdout entry, never the
\* DIRECTORY marker or an auxiliary file, and ends with ParserError.
C17_BadDirectoryFails ==
    (Iterating /\ gen.directory # None /\ ~DirExists(gen.directory)) =>
        /\ \A i \in 1..Len(gen.yielded) : gen.yielded[i][1] = "stdout"
        /\ Len(gen.yielded) <= 1
        /\ gen.status \in {"open", "ParserError"}
        /\ (gen.status = "open" /\ Len(gen.yielded) = (IF gen.stdout = None THEN 0 ELSE 1))
              => Head(gen.todo) = GenRaise("ParserError")

\* C17 witness: the directory is a file; the generator has yielded stdout
\* and then raised ParserError
C17_Witness ==
    /\ Iterating
    /\ gen.directory = "afile"
    /\ gen.status = "ParserError"
    /\ gen.yielded = << <<"stdout", "out">> >>

-----------------------------------------------------------------------------
(* Properties of NativeInput, the encoders and encode (SpecEncode) *)

\* the NativeInput objects of the state: what a constructor or an encoder
\* returned
NativeInputs ==
    IF enc.op \in {"NativeInput", "encode", "encoder.encode"} /\ enc.status = "ok"
    THEN {enc.value}
    ELSE {}

\* C21: every NativeInput that exists has a geometry_filename whenever it
\* has a geometry_file; constructing one with a geometry_file but no
\* geometry_filename fails with ValueError; and a NativeInput returned by
\* the TeraChem or the CREST encoder has both set. To have a geometry_file
\* or a geometry_filename is to have one that is neither None nor empty.
C21_GeometryFilenameWithGeometryFile ==
    /\ \A ni \in NativeInputs :
          Truthy(ni.geometry_file) => Truthy(ni.geometry_filename)
    /\ (/\ enc.op = "NativeInput"
        /\ Truthy(enc.geometry_file)
        /\ ~Truthy(enc.geometry_filename)) => enc.status = "ValueError"
    /\ (enc.op \in {"encode", "encoder.encode"} /\ enc.status = "ok") =>
          /\ Truthy(enc.value.geometry_file)
          /\ Truthy(enc.value.geometry_filename)

\* C21 witness: NativeInput("tc.in", "water.xyz", None) failed with
\* ValueError
C21_Witness ==
    /\ enc.op = "NativeInput"
    /\ enc.geometry_file = "water.xyz"
    /\ enc.geometry_filename = None
    /\ enc.status = "ValueError"

\* C22: encode(inp_data, program), for a program that has an encoder,
\* raises EncoderError without invoking the encoder when inp_data.calctype
\* is not in the encoder's SUPPORTED_CALCTYPES; otherwise it invokes the
\* encoder and its outcome is the encoder's: the encoder's NativeInput, or
\* the error the encoder raised.
C22_EncodeChecksCalctype ==
    (enc.op = "encode" /\ enc.program \in {"crest", "terachem"}) =>
        IF enc.inp.calctype \notin
              (IF enc.program = "crest"
               THEN {"conformer_search", "optimization", "energy", "gradient", "hessian"}
               ELSE {"energy", "gradient", "hessian", "optimization", "transition_state"})
        THEN /\ enc.status = "EncoderError"
             /\ ~enc.invoked
             /\ enc.value = NoValue
        ELSE /\ enc.invoked
             /\ enc.status = ModEncode(enc.program, enc.inp).status
             /\ enc.value = ModEncode(enc.program, enc.inp).value

\* C22 witness: encode of a conformer_search input for terachem raised
\* EncoderError and the encoder was not invoked
C22_Witness ==
    /\ enc.op = "encode"
    /\ enc.program = "terachem"
    /\ enc.inp.calctype = "conformer_search"
    /\ enc.inp.keywords = <<>>
    /\ enc.status = "EncoderError"
    /\ ~enc.invoked

\* the keys of the six lines the TeraChem encoder emits first
TeraChemHead == <<"run", "coordinates", "charge", "spinmult", "method", "basis">>

\* C23: the TeraChem encoder raises EncoderError, and returns no
\* NativeInput, whenever the keywords contain one of charge, spinmult, run,
\* basis, method; with none of them it succeeds and the input file is the
\* run, coordinates, charge, spinmult, method and basis lines followed by
\* one line per keyword, in keyword order.
C23_TeraChemRejectsNonKeywords ==
    (enc.op = "encoder.encode" /\ enc.program = "terachem") =>
        IF \E k \in {"charge", "spinmult", "run", "basis", "method"} :
              HasKey(enc.inp.keywords, k)
        THEN enc.status = "EncoderError" /\ enc.value = NoValue
        ELSE /\ enc.status = "ok"
             /\ LET f == enc.value.input_file
                    kws == enc.inp.keywords
                IN  /\ Len(f) = Len(TeraChemHead) + Len(kws)
                    /\ \A i \in 1..Len(TeraChemHead) : f[i].key = TeraChemHead[i]
                    /\ \A i \in 1..Len(kws) :
                          /\ f[Len(TeraChemHead) + i].key = kws[i].key
                          /\ f[Len(TeraChemHead) + i].value = Lower(kws[i].value)

\* C23 witness: keywords purify, method: the encoder raised EncoderError
\* at the second keyword
C23_Witness ==
    /\ enc.op = "encoder.encode"
    /\ enc.program = "terachem"
    /\ enc.inp.keywords = << Keyword("purify", "False"), Keyword("method", "hf") >>
    /\ enc.status = "EncoderError"

\* C23, the other case: keywords maxit, purify are emitted after the six
\* lines, in that order
C23_WitnessLines ==
    /\ enc.op = "encoder.encode"
    /\ enc.program = "terachem"
    /\ enc.inp.keywords = << Keyword("maxit", "100"), Keyword("purify", "False") >>
    /\ enc.status = "ok"
    /\ Len(enc.value.input_file) = 8
    /\ enc.value.input_file[7] = Line("maxit", "100")
    /\ enc.value.input_file[8] = Line("purify", "false")

\* the valid runtypes the specification lists for a calctype
ListedRuntypes(calctype) ==
    CASE calctype = "conformer_search" ->
            {"imtd-gc", "imtd-smtd", "entropy", "nci", "nci-mtd"}
      [] calctype = "optimization" -> {"optimize", "ancopt"}
      [] calctype = "energy" -> {"singlepoint"}
      [] calctype = "gradient" -> {"singlepoint"}
      [] calctype = "hessian" -> {"numhess"}

\* C24: validate_input of the CREST encoder raises EncoderError exactly
\* when the keywords contain charge or uhf, or contain a runtype that is
\* not in the valid set of the calctype; otherwise it accepts the input.
\* The calctypes with a valid set are conformer_search, optimization,
\* energy, gradient and hessian; for a calctype without one
\* (transition_state) every runtype is accepted.
C24_CrestValidateInput ==
    enc.op = "validate_input" =>
        LET kws == enc.inp.keywords
            listed == {"conformer_search", "optimization", "energy", "gradient",
                       "hessian"}
        IN  /\ enc.status \in {"ok", "EncoderError"}
            /\ (enc.status = "EncoderError") <=>
                  \/ HasKey(kws, "charge")
                  \/ HasKey(kws, "uhf")
                  \/ /\ HasKey(kws, "runtype")
                     /\ enc.inp.calctype \in listed
                     /\ Lookup(kws, "runtype") \notin ListedRuntypes(enc.inp.calctype)

\* C24 witness: a hessian input with runtype singlepoint is rejected
C24_Witness ==
    /\ enc.op = "validate_input"
    /\ enc.inp.calctype = "hessian"
    /\ enc.inp.keywords = << Keyword("runtype", "singlepoint") >>
    /\ enc.status = "EncoderError"

-----------------------------------------------------------------------------
(* Properties of the DataCollector, continued (SpecCollector) *)

\* C27 as stated: once add_data(p, v) has succeeded, the value read back
\* at p is v in every later state, whatever add_data calls follow, and a
\* failing add_data leaves the whole collector unchanged: every add_data
\* step keeps the value at every path written before, a failing one keeps
\* the collector, a successful one leaves its value at its path.
C27_WrittenValueKept ==
    [][ /\ \A t \in dcWritten : /\ t.keys \in DOMAIN dc'
                                /\ Subtree(dc', t.keys) = Subtree(dc, t.keys)
        /\ dcRet'.status # "ok" => dc' = dc
        /\ dcRet'.status = "ok" =>
              /\ dcRet'.target.keys \in DOMAIN dc'
              /\ Subtree(dc', dcRet'.target.keys) = dcRet'.value ]_vars

-----------------------------------------------------------------------------
(* Properties of decode, continued (SpecDecode) *)

\* the contents iter_files yields with a file kind
YieldedContents(filetype) ==
    LET y == IterFiles(dec.args.stdout, dec.args.directory, dec.args.exists)
        k == CHOOSE k \in 1..Len(y) : y[k].kind = "yield" /\ y[k].filetype = filetype
    IN  y[k].contents

\* the parser call that ended decode with a DataCollectorError, if any
Conflicting(i) == /\ i = Len(dec.ran)
                  /\ dec.pc = "done"
                  /\ dec.status \in {"DataCollectorError", "AssertionError"}

\* C26: decode runs parsers in a fixed order: the files in the order
\* iter_files yields them and, for each file, the applicable specs in
\* registration order; a non-directory parser is called with the contents
\* of that file only, a directory parser with (directory, stdout,
\* input_data); and what a parser returned is in the collector before the
\* next parser is invoked (in every state from the parser's call on).
C26_ParsersRunInFixedOrder ==
    (Decoding /\ dec.args.program = "crest") =>
        /\ IsPrefix([i \in 1..Len(dec.ran) |-> dec.ran[i].spec], Applicable)
        /\ AtEnd(dec) => [i \in 1..Len(dec.ran) |-> dec.ran[i].spec] = Applicable
        /\ \A i \in 1..Len(dec.ran) :
              /\ dec.ran[i].args =
                    IF dec.ran[i].spec.filetype = "directory"
                    THEN <<dec.args.directory, dec.args.stdout, "input_data">>
                    ELSE <<YieldedContents(dec.ran[i].spec.filetype)>>
              /\ (dec.ran[i].out.kind # "raise" /\ ~Conflicting(i)) =>
                    \A q \in Attempts(dec.ran[i]) :
                        /\ q \in DOMAIN dec.dcol
                        /\ Subtree(dec.dcol, q) = Attempted(dec.ran[i], q)

\* C26 witness: stdout, the directory and numhess1 were yielded; the two
\* specs registered, a numhess1 parser first and a directory parser second,
\* ran in the order of the files, each with its arguments
C26_Witness ==
    /\ Decoding
    /\ dec.args.program = "crest"
    /\ dec.args.stdout = "out"
    /\ Len(dec.ran) = 2
    /\ dec.ran[1].spec.filetype = "directory"
    /\ dec.ran[1].args = <<"outdir", "out", "input_data">>
    /\ dec.ran[2].spec.filetype = "numhess1"
    /\ dec.ran[2].args = <<"numhess1">>
    /\ RegistryGet(registry, "crest")[1].filetype = "numhess1"
    /\ <<"hessian">> \in DOMAIN dec.dcol

\* C28 as stated: with a registry populated through register only, no
\* decode call has two targeted extractors (parsers returning a value that
\* is no mapping) write the same collector path, a str target t and the
\* tuple (t,) being the same path.
C28_TargetedExtractorsNeverCollide ==
    \A i, j \in 1..Len(Ran) :
        (i < j /\ Ran[i].out.kind = "value" /\ Ran[j].out.kind = "value")
            => Ran[i].spec.target.keys # Ran[j].spec.target.keys

\* C29: in decode only MatchNotFoundError is subject to the required /
\* optional rule: any other exception a parser raises ends decode at that
\* parser and is what decode raises, without a result, whether the
\* parser's spec is required or not.
C29_OtherExceptionsPropagate ==
    \A i \in 1..Len(Ran) :
        (Ran[i].out.kind = "raise" /\ Ran[i].out.status # "MatchNotFoundError")
            => /\ i = Len(Ran)
               /\ Done
               /\ dec.status = Ran[i].out.status
               /\ dec.result = NoResult

\* C29 witness: the optional numhess1 parser raised ParserError and decode
\* ended with it
C29_Witness ==
    /\ Done
    /\ Len(dec.ran) >= 1
    /\ ~dec.ran[Len(dec.ran)].spec.required
    /\ dec.ran[Len(dec.ran)].spec.parser = "parse_numhess1"
    /\ dec.ran[Len(dec.ran)].out = Raise("ParserError")
    /\ dec.status = "ParserError"

\* decode was given stdout and a directory that does not exist or is no
\* directory, and has ended
BadDirectoryDone ==
    /\ Done
    /\ dec.args.program = "crest"
    /\ dec.args.stdout # None
    /\ Truthy(dec.args.directory)
    /\ ~DirExists(dec.args.directory)

\* the registered stdout specs that list the calctype of the call
StdoutSpecs ==
    SelectSeq(RegistryGet(registry, dec.args.program),
              LAMBDA ps : /\ ps.filetype = "stdout"
                          /\ \E k \in 1..Len(ps.calctypes) :
                                ps.calctypes[k] = dec.args.calctype)

\* C30: when decode is given stdout and a bad directory, the stdout parsers
\* run before the directory is validated: decode ends with the directory's
\* ParserError only after every applicable stdout parser has run and no
\* required one has failed to match; when a required stdout parser fails
\* to match, its MatchNotFoundError is what decode raises; no parser other
\* than a stdout parser runs and no result is returned.
C30_StdoutParsedBeforeDirectoryChecked ==
    BadDirectoryDone =>
        /\ dec.status # "ok"
        /\ dec.result = NoResult
        /\ \A i \in 1..Len(dec.ran) : dec.ran[i].spec.filetype = "stdout"
        /\ dec.status = "ParserError" =>
              /\ [i \in 1..Len(dec.ran) |-> dec.ran[i].spec] = StdoutSpecs
              /\ \A i \in 1..Len(dec.ran) :
                    dec.ran[i].spec.required => dec.ran[i].out.kind = "value"
        /\ (\E i \in 1..Len(dec.ran) : dec.ran[i].spec.required /\ NoMatch(dec.ran[i]))
              => dec.status = "MatchNotFoundError"

\* C30 witness: the required energy parser ran on stdout and succeeded,
\* then the missing directory ended decode with ParserError
C30_Witness ==
    /\ BadDirectoryDone
    /\ dec.args.directory = "missing"
    /\ dec.status = "ParserError"
    /\ Len(dec.ran) >= 1
    /\ dec.ran[1].spec.required
    /\ dec.ran[1].out.kind = "value"
    /\ <<"energy">> \in DOMAIN dec.dcol

\* C30, the other case: the required parser found no match and the
\* directory was never looked at
C30_WitnessNoMatch ==
    /\ BadDirectoryDone
    /\ dec.status = "MatchNotFoundError"
    /\ dec.ran[Len(dec.ran)].spec.required
    /\ dec.files = <<GenRaise("ParserError")>>

-----------------------------------------------------------------------------
(* Properties of the command line (SpecCli) *)

CliExited == cli.op = "main" /\ cli.pc = "exited"

\* the decode call of the run raised
CliDecodeFailed == cli.op = "main" /\ dec # NoCall /\ dec.pc = "done" /\ dec.status # "ok"

\* reading the stdout file raised
CliReadFailed ==
    /\ cli.op = "main"
    /\ Len(cli.argv) >= 3
    /\ cli.argv[3] \notin {"", "crest.out"}
    /\ cli.pc = "exited"

\* C25: the command exits with code 0 when decode succeeds and the result
\* is printed, and with a non-zero code whenever decode or the reading of
\* the stdout file raises; nothing is printed after a failure.
C25_ExitCode ==
    /\ CliExited =>
          /\ cli.exit = 0 <=>
                (dec # NoCall /\ dec.pc = "done" /\ dec.status = "ok")
          /\ cli.exit = 0 => cli.printed = <<dec.result>>
          /\ cli.exit # 0 => cli.printed = <<>>
          /\ (CliDecodeFailed \/ CliReadFailed) => cli.exit # 0
    /\ (cli.op = "main" /\ ~CliExited) => cli.printed = <<>>
    /\ CliDecodeFailed => cli.printed = <<>>

\* C25 witness: the run decoded crest.out, printed SinglePointResults and
\* exited with 0
C25_Witness ==
    /\ CliExited
    /\ cli.argv = <<"crest", "energy", "crest.out">>
    /\ cli.exit = 0
    /\ Len(cli.printed) = 1
    /\ cli.printed[1].kind = "SinglePointResults"

\* C25, the failures: a required parser found no match, the stdout file
\* is missing
C25_WitnessDecodeFails ==
    /\ CliExited
    /\ dec # NoCall /\ dec.status = "MatchNotFoundError"
    /\ cli.exit = 1
    /\ cli.printed = <<>>

C25_WitnessReadFails ==
    /\ CliExited
    /\ cli.status = "FileNotFoundError"
    /\ dec = NoCall
    /\ cli.exit = 1

====
